---- MODULE Spec2Model ----
(***************************************************************************)
(* Limit order book matching engine (OrderBook / PriceLevel).              *)
(*                                                                         *)
(* The engine state is the order index order_map_, the two side books      *)
(* bids_ and asks_ (price -> PriceLevel) and the heap of Order objects the *)
(* three containers point into.  One action per public command: AddOrder,  *)
(* CancelOrder, ModifyOrder.  Every action is the whole command, matching  *)
(* and notifications included.  The events a command hands to the Notify*  *)
(* fan-out are recorded in `events`, the command and the way it returned   *)
(* to its caller in `last`, until the caller has taken the result (Return).*)
(*                                                                         *)
(* With clients registered a command is also modelled step by step: it     *)
(* runs up to its next Notify* call, the callbacks of the registered       *)
(* clients are actions of their own (return, throw, call back into the     *)
(* book, change the registry), and `frame` holds the suspended command.    *)
(* SpecCallbacks, SpecReentrant and SpecFanout are the specifications of   *)
(* the commands with callbacks, of re-entrant callbacks and of the client  *)
(* registry with the Notify* loops.                                        *)
(*                                                                         *)
(* SpecLifecycle follows the client objects behind the registry (pointee,  *)
(* calls: Initialize, callbacks, Shutdown, destruction of the book).       *)
(* SpecExecutions follows the process-wide execution id counter            *)
(* last_order_number and the ids drawn by the trades (executions).         *)
(* SpecPriceLevel is one PriceLevel held outside any book (price_level),   *)
(* with AddOrder, RemoveOrder and FillOrder called directly; last_fill is  *)
(* what the last FillOrder was asked for and returned.                     *)
(*                                                                         *)
(* SpecObserved is the book with one registered client whose callbacks     *)
(* return, so that each OnTradeExecuted is seen against the book it is     *)
(* delivered in.  SpecMatching runs MatchOrders one pass of its loop at a  *)
(* time (walk holds the suspended call), SpecTimestamps carries the clock  *)
(* (now) and the ts_received / ts_executed of the resting orders (stamps)  *)
(* and of the last trade (trade_stamps).  SpecThreads is the two id        *)
(* generators called from several threads (id_counter, thread_results),    *)
(* SpecQuotes the spread and mid price a client derives from the best      *)
(* prices (derived), in unsigned arithmetic of TickBits bits.              *)
(*                                                                         *)
(* user_id decides nothing and is left out of the records; the timestamps  *)
(* are kept apart from the Order records, in stamps and trade_stamps.      *)
(***************************************************************************)
EXTENDS Integers, Sequences, FiniteSets, TLC

\* ---------------------------------------------------------------- bounds
MaxOrderId == 3
MaxPrice == 1
MaxQuantity == 2

OrderIds == 1..MaxOrderId
Prices == 0..MaxPrice
Quantities == 0..MaxQuantity
\* addresses operator new can return; one more than the ids that can be live
Ptrs == 1..(MaxOrderId + 1)

\* nullptr for Order::parent_price_level
NullLevel == <<>>
\* end() of a side book
EndIt == -1

VARIABLES
    order_map_,   \* OrderBook::order_map_ : order id -> Order*
    bids_,        \* OrderBook::bids_ : price -> PriceLevel, highest price first
    asks_,        \* OrderBook::asks_ : price -> PriceLevel, lowest price first
    orders,       \* the heap: address -> Order, for every Order not yet deleted
    last,         \* the command that has just run and how it left: ok or exception
    events,       \* the events that command handed to Notify*, in order
    replaced,     \* price and quantity of the order the last ModifyOrder deleted
    quoted,       \* what the getters returned before the Add the caller may take back
    clients_,     \* OrderBook::clients_ : the registered client ids, in iteration order
    registration, \* the registered client ids in the order RegisterClient added them
    frame,        \* the command that is inside a Notify* call, and where it stands
    delivered,    \* the callbacks that have run for the command, in order
    pointee,      \* OrderBook::clients_ : client id -> the IClient object it holds
    calls,        \* per IClient object, the callbacks it has received, in order
    last_order_number, \* Helpers::last_order_number, the execution id counter
    executions,   \* the execution ids of the trades the engine has emitted, in order
    price_level,  \* a PriceLevel on its own, as PriceLevelTest holds one
    last_fill,    \* what the last FillOrder on price_level was given and returned
    walk,         \* MatchOrders followed pass by pass: incoming order, iterator, trades
    id_counter,   \* the static id_counter of Helpers::GenerateOrderId
    thread_results, \* per thread, the ids the generators have returned to it, in order
    now,          \* what Helpers::GetTimeStamp() returns
    stamps,       \* ts_received and ts_executed of the order resting under an id
    trade_stamps, \* ts_received and ts_executed of the trades of the last command
    derived       \* best bid and ask a client holds, and its GetSpread / GetMidPrice

vars == <<order_map_, bids_, asks_, orders, last, events, replaced, quoted,
          clients_, registration, frame, delivered, pointee, calls,
          last_order_number, executions, price_level, last_fill,
          walk, id_counter, thread_results, now, stamps, trade_stamps, derived>>

\* ------------------------------------------------------- container helpers
Min(a, b) == IF a <= b THEN a ELSE b

MapPut(f, k, v) == [x \in (DOMAIN f) \cup {k} |-> IF x = k THEN v ELSE f[x]]

MapErase(f, k) == [x \in (DOMAIN f) \ {k} |-> f[x]]

EmptyMap == [x \in {} |-> 0]

RECURSIVE SeqRemove(_, _)
SeqRemove(s, x) ==
    IF s = <<>> THEN <<>>
    ELSE IF Head(s) = x THEN Tail(s)
    ELSE <<Head(s)>> \o SeqRemove(Tail(s), x)

SeqContains(s, x) == \E i \in 1..Len(s) : s[i] = x

\* operator new: any free address will do, addresses are only compared for
\* identity; this allocator hands out the address numbered like the order id
\* when it is free and the lowest free address otherwise
NewPtr(heap, order_id) ==
    IF order_id \notin DOMAIN heap THEN order_id
    ELSE CHOOSE p \in Ptrs \ DOMAIN heap : \A q \in Ptrs \ DOMAIN heap : p <= q

\* BookBegin with a seeded fault: both side books iterate lowest price first (bids_
\* declared with std::less)
BookBegin_Worst(book, is_bid_book) ==
    IF DOMAIN book = {} THEN EndIt
    ELSE CHOOSE k \in DOMAIN book : \A j \in DOMAIN book : j >= k

\* std::map<uint64_t, PriceLevel, std::greater> bids_ / std::less asks_:
\* begin(), and the iterator that follows key k
BookBegin(book, is_bid_book) ==
    IF DOMAIN book = {} THEN EndIt
    ELSE IF is_bid_book
         THEN CHOOSE k \in DOMAIN book : \A j \in DOMAIN book : j <= k
         ELSE CHOOSE k \in DOMAIN book : \A j \in DOMAIN book : j >= k

BookNext(book, is_bid_book, k) ==
    LET rest == IF is_bid_book THEN {j \in DOMAIN book : j < k}
                ELSE {j \in DOMAIN book : j > k}
    IN IF rest = {} THEN EndIt
       ELSE IF is_bid_book
            THEN CHOOSE n \in rest : \A j \in rest : j <= n
            ELSE CHOOSE n \in rest : \A j \in rest : j >= n

\* a value-initialised PriceLevel, as std::map::operator[] creates it
NewPriceLevel == [price_ |-> 0, total_volume_ |-> 0, order_queue_ |-> <<>>]

\* std::map::operator[]
BookAt(book, k) == IF k \in DOMAIN book THEN book ELSE MapPut(book, k, NewPriceLevel)

\* the engine state threaded through the helpers of a command
EngineState == [order_map_ |-> order_map_, bids_ |-> bids_, asks_ |-> asks_, orders |-> orders]

SideBook(st, is_bid_book) == IF is_bid_book THEN st.bids_ ELSE st.asks_

WithSideBook(st, is_bid_book, book) ==
    IF is_bid_book THEN [st EXCEPT !.bids_ = book] ELSE [st EXCEPT !.asks_ = book]

\* ------------------------------------------------------------- PriceLevel
\* `self` is the address of the level (this): the side book and key of its
\* map node, which std::map keeps stable for the node's lifetime.
\* PL_AddOrder with a seeded fault: push_front instead of push_back
PL_AddOrder_AtFront(level, heap, p, self) ==
    [level |-> [price_ |-> IF level.order_queue_ = <<>> THEN heap[p].price ELSE level.price_,
                total_volume_ |-> level.total_volume_ + heap[p].quantity,
                order_queue_ |-> <<p>> \o level.order_queue_],
     orders |-> [heap EXCEPT ![p].parent_price_level = self]]

\* PL_AddOrder with a seeded fault: order->parent_price_level is not set
PL_AddOrder_NoBackLink(level, heap, p, self) ==
    [level |-> [price_ |-> IF level.order_queue_ = <<>> THEN heap[p].price ELSE level.price_,
                total_volume_ |-> level.total_volume_ + heap[p].quantity,
                order_queue_ |-> Append(level.order_queue_, p)],
     orders |-> heap]

\* order_queue_.push_back(order); total_volume_ += order->quantity;
\* order->parent_price_level = this
PL_AddOrder(level, heap, p, self) ==
    [level |-> [price_ |-> IF level.order_queue_ = <<>> THEN heap[p].price ELSE level.price_,
                total_volume_ |-> level.total_volume_ + heap[p].quantity,
                order_queue_ |-> Append(level.order_queue_, p)],
     orders |-> [heap EXCEPT ![p].parent_price_level = self]]

\* PL_RemoveOrder with a seeded fault: the erase without total_volume_ -= order->quantity
PL_RemoveOrder_KeepsVolume(level, heap, p, self) ==
    IF heap[p].parent_price_level # self
    THEN [level |-> level, orders |-> heap, threw |-> TRUE]
    ELSE IF SeqContains(level.order_queue_, p)
    THEN [level |-> [level EXCEPT !.order_queue_ = SeqRemove(@, p)],
          orders |-> [heap EXCEPT ![p].parent_price_level = NullLevel],
          threw |-> FALSE]
    ELSE [level |-> level, orders |-> heap, threw |-> TRUE]

\* PL_RemoveOrder with a seeded fault: the order is taken out without a look at
\* its back-link or at the queue
PL_RemoveOrder_Unchecked(level, heap, p, self) ==
    [level |-> [level EXCEPT !.total_volume_ = @ - Min(@, heap[p].quantity),
                             !.order_queue_ = SeqRemove(@, p)],
     orders |-> [heap EXCEPT ![p].parent_price_level = NullLevel],
     threw |-> FALSE]

\* threw: std::runtime_error("Order not found in PriceLevel")
PL_RemoveOrder(level, heap, p, self) ==
    IF heap[p].parent_price_level # self
    THEN [level |-> level, orders |-> heap, threw |-> TRUE]
    ELSE IF SeqContains(level.order_queue_, p)
    THEN [level |-> [level EXCEPT !.total_volume_ = @ - heap[p].quantity,
                                  !.order_queue_ = SeqRemove(@, p)],
          orders |-> [heap EXCEPT ![p].parent_price_level = NullLevel],
          threw |-> FALSE]
    ELSE [level |-> level, orders |-> heap, threw |-> TRUE]

\* MakeTrade with a seeded fault: the trade printed at the aggressor's limit price
MakeTrade_AggressorPrice(order, top_order, price_, fill_quantity) ==
    [aggressor_order_id |-> order.order_id,
     resting_order_id |-> top_order.order_id,
     price |-> order.price,
     quantity |-> fill_quantity]

\* MakeTrade with a seeded fault: the two order ids in each other's place
MakeTrade_Swapped(order, top_order, price_, fill_quantity) ==
    [aggressor_order_id |-> top_order.order_id,
     resting_order_id |-> order.order_id,
     price |-> price_,
     quantity |-> fill_quantity]

\* Trade{...} built in FillOrder
MakeTrade(order, top_order, price_, fill_quantity) ==
    [aggressor_order_id |-> order.order_id,
     resting_order_id |-> top_order.order_id,
     price |-> price_,
     quantity |-> fill_quantity]

\* FillQuantity with a seeded fault: the head order is always filled whole
FillQuantity_WholeMaker(remaining_quantity, top_quantity) == top_quantity

\* FillQuantity with a seeded fault: every pass of the loop fills one unit
FillQuantity_Unit(remaining_quantity, top_quantity) == 1

\* fill_quantity = std::min(remaining_quantity, top_order->quantity)
FillQuantity(remaining_quantity, top_quantity) == Min(remaining_quantity, top_quantity)

\* FillLoop with a seeded fault: total_volume_ is not decremented by a fill
RECURSIVE FillLoop_KeepsVolume(_, _, _, _, _)
FillLoop_KeepsVolume(level, heap, p, remaining_quantity, trades) ==
    IF ~(remaining_quantity > 0 /\ level.order_queue_ # <<>>)
    THEN [level |-> level, orders |-> heap, trades |-> trades]
    ELSE LET top_order == Head(level.order_queue_)
             fill_quantity == FillQuantity(remaining_quantity, heap[top_order].quantity)
             trade == MakeTrade(heap[p], heap[top_order], level.price_, fill_quantity)
             filled == heap[top_order].quantity - fill_quantity = 0
             heap1 == [heap EXCEPT ![top_order].quantity = @ - fill_quantity,
                                   ![top_order].parent_price_level =
                                        IF filled THEN NullLevel ELSE @]
             level1 == [level EXCEPT !.order_queue_ = IF filled THEN Tail(@) ELSE @]
         IN FillLoop_KeepsVolume(level1, heap1, p, remaining_quantity - fill_quantity,
                                 Append(trades, trade))

\* the while loop of PriceLevel::FillOrder
RECURSIVE FillLoop(_, _, _, _, _)
FillLoop(level, heap, p, remaining_quantity, trades) ==
    IF ~(remaining_quantity > 0 /\ level.order_queue_ # <<>>)
    THEN [level |-> level, orders |-> heap, trades |-> trades]
    ELSE LET top_order == Head(level.order_queue_)
             fill_quantity == FillQuantity(remaining_quantity, heap[top_order].quantity)
             trade == MakeTrade(heap[p], heap[top_order], level.price_, fill_quantity)
             filled == heap[top_order].quantity - fill_quantity = 0
             heap1 == [heap EXCEPT ![top_order].quantity = @ - fill_quantity,
                                   ![top_order].parent_price_level =
                                        IF filled THEN NullLevel ELSE @]
             level1 == [level EXCEPT !.total_volume_ = @ - fill_quantity,
                                     !.order_queue_ = IF filled THEN Tail(@) ELSE @]
         IN FillLoop(level1, heap1, p, remaining_quantity - fill_quantity,
                     Append(trades, trade))

PL_FillOrder(level, heap, p, quantity) ==
    IF quantity = 0 \/ level.order_queue_ = <<>>
    THEN [level |-> level, orders |-> heap, trades |-> <<>>]
    ELSE FillLoop(level, heap, p, quantity, <<>>)

\* -------------------------------------------------------------- OrderBook
GetBestAskOf(st) == IF DOMAIN st.asks_ = {} THEN 0 ELSE BookBegin(st.asks_, FALSE)

GetBestBidOf(st) == IF DOMAIN st.bids_ = {} THEN 0 ELSE BookBegin(st.bids_, TRUE)

RECURSIVE SumVolumes(_, _)
SumVolumes(book, keys) ==
    IF keys = {} THEN 0
    ELSE LET k == CHOOSE x \in keys : TRUE
         IN book[k].total_volume_ + SumVolumes(book, keys \ {k})

GetTotalAskVolumeOf(st) == SumVolumes(st.asks_, DOMAIN st.asks_)

\* GetTotalBidVolume with a seeded fault: the volume of the best level only
GetTotalBidVolumeOf_BestLevel(st) ==
    IF DOMAIN st.bids_ = {} THEN 0 ELSE st.bids_[BookBegin(st.bids_, TRUE)].total_volume_

GetTotalBidVolumeOf(st) == SumVolumes(st.bids_, DOMAIN st.bids_)

GetBestAsk == GetBestAskOf(EngineState)

GetBestBid == GetBestBidOf(EngineState)

GetTotalAskVolume == GetTotalAskVolumeOf(EngineState)

GetTotalBidVolume == GetTotalBidVolumeOf(EngineState)

\* uint64_t arithmetic, with the 64 bits scaled down to TickBits bits: sums
\* and differences are taken modulo 2^TickBits
TickBits == 4

TickRange == 2 ^ TickBits

TickPrices == 0..(TickRange - 1)

Wrap(x) == ((x % TickRange) + TickRange) % TickRange

\* DatabentoMboClient::GetSpread: if (bid == 0 || ask == 0) return 0;
\* return ask - bid
SpreadOf(bid, ask) == IF bid = 0 \/ ask = 0 THEN 0 ELSE Wrap(ask - bid)

\* DatabentoMboClient::GetMidPrice: if (bid == 0 || ask == 0) return 0;
\* return (bid + ask) / 2
MidPriceOf(bid, ask) == IF bid = 0 \/ ask = 0 THEN 0 ELSE Wrap(bid + ask) \div 2

GetSpread == SpreadOf(GetBestBid, GetBestAsk)

GetMidPrice == MidPriceOf(GetBestBid, GetBestAsk)

\* Crosses with a seeded fault: the walk takes every level of the other side
Crosses_Always(is_buy_side, price, level_price) == TRUE

\* Crosses with a seeded fault: strict comparisons, equal prices do not trade
Crosses_Strict(is_buy_side, price, level_price) ==
    IF is_buy_side THEN price > level_price ELSE price < level_price

\* incoming_order->price >= ask_price  /  incoming_order->price <= bid_price
Crosses(is_buy_side, price, level_price) ==
    IF is_buy_side THEN price >= level_price ELSE price <= level_price

\* CleanUpFilled with a seeded fault: filled makers are left in order_map_
CleanUpFilled_KeepsIndex(st, level_trades) == st

\* "Clean up any filled orders from order_map": one pass over level_trades
RECURSIVE CleanUpFilled(_, _)
CleanUpFilled(st, level_trades) ==
    IF level_trades = <<>> THEN st
    ELSE LET id == Head(level_trades).resting_order_id
             st1 == IF id \in DOMAIN st.order_map_
                       /\ st.orders[st.order_map_[id]].quantity = 0
                    THEN [st EXCEPT !.order_map_ = MapErase(@, id),
                                    !.orders = MapErase(@, st.order_map_[id])]
                    ELSE st
         IN CleanUpFilled(st1, Tail(level_trades))

\* MatchStep with a seeded fault: a level without volume is passed over with
\* `continue`, before the iterator moves
MatchStep_StaysOnEmpty(st, p, it) ==
    LET incoming == st.orders[p]
        opp == ~incoming.is_buy_side
        book == SideBook(st, opp)
        quantity_to_fill == Min(incoming.quantity, book[it].total_volume_)
        f == PL_FillOrder(book[it], st.orders, p, quantity_to_fill)
        st1 == [WithSideBook(st, opp, [book EXCEPT ![it] = f.level])
                    EXCEPT !.orders = f.orders]
        st2 == CleanUpFilled(st1, f.trades)
        st3 == [st2 EXCEPT !.orders[p].quantity = @ - quantity_to_fill]
        book3 == SideBook(st3, opp)
        next == BookNext(book3, opp, it)
        st4 == IF book3[it].total_volume_ = 0
               THEN WithSideBook(st3, opp, MapErase(book3, it))
               ELSE st3
    IN IF book[it].total_volume_ = 0
       THEN [st |-> st, it |-> it, trades |-> <<>>]
       ELSE [st |-> st4, it |-> next, trades |-> f.trades]

\* one pass of the while loop of MatchOrders over a level that crosses: the
\* book after it, the iterator after it and the trades of the level
MatchStep(st, p, it) ==
    LET incoming == st.orders[p]
        opp == ~incoming.is_buy_side
        book == SideBook(st, opp)
        quantity_to_fill == Min(incoming.quantity, book[it].total_volume_)
        f == PL_FillOrder(book[it], st.orders, p, quantity_to_fill)
        st1 == [WithSideBook(st, opp, [book EXCEPT ![it] = f.level])
                    EXCEPT !.orders = f.orders]
        st2 == CleanUpFilled(st1, f.trades)
        st3 == [st2 EXCEPT !.orders[p].quantity = @ - quantity_to_fill]
        book3 == SideBook(st3, opp)
        next == BookNext(book3, opp, it)
        st4 == IF book3[it].total_volume_ = 0
               THEN WithSideBook(st3, opp, MapErase(book3, it))
               ELSE st3
    IN [st |-> st4, it |-> next, trades |-> f.trades]

\* the walk over the opposite side book; `it` is ask_it / bid_it
RECURSIVE MatchLoop(_, _, _, _)
MatchLoop(st, p, it, executed_trades) ==
    LET incoming == st.orders[p]
    IN IF ~(it # EndIt /\ incoming.quantity > 0)
       THEN [st |-> st, trades |-> executed_trades]
       ELSE IF ~Crosses(incoming.is_buy_side, incoming.price, it)
       THEN [st |-> st, trades |-> executed_trades]
       ELSE CHOOSE r \in {MatchLoop(s.st, p, s.it, executed_trades \o s.trades) :
                              s \in {MatchStep(st, p, it)}} : TRUE

MatchOrders(st, p) ==
    MatchLoop(st, p, BookBegin(SideBook(st, ~st.orders[p].is_buy_side),
                               ~st.orders[p].is_buy_side), <<>>)

AddRestingOrder(st, p) ==
    LET order == st.orders[p]
        st1 == [st EXCEPT !.order_map_ = MapPut(@, order.order_id, p)]
        book == BookAt(SideBook(st1, order.is_buy_side), order.price)
        a == PL_AddOrder(book[order.price], st1.orders, p,
                         <<order.is_buy_side, order.price>>)
    IN [WithSideBook(st1, order.is_buy_side, [book EXCEPT ![order.price] = a.level])
            EXCEPT !.orders = a.orders]

\* new Order{order_id, user_id, is_buy, quantity, price, ...}
NewOrder(order_id, is_buy, quantity, price) ==
    [order_id |-> order_id, is_buy_side |-> is_buy, quantity |-> quantity,
     price |-> price, parent_price_level |-> NullLevel]

\* ------------------------------------------------------------ notifications
TradeExecuted(trade) == [type |-> "TradeExecuted", trade |-> trade]

RECURSIVE TradeEvents(_)
TradeEvents(trades) ==
    IF trades = <<>> THEN <<>>
    ELSE <<TradeExecuted(Head(trades))>> \o TradeEvents(Tail(trades))

OrderAcknowledged(order_id) == [type |-> "OrderAcknowledged", order_id |-> order_id]

OrderCancelled(order_id) == [type |-> "OrderCancelled", order_id |-> order_id]

\* OrderModified with a seeded fault: price and quantity passed in the wrong order
OrderModified_Swapped(order_id, new_quantity, new_price) ==
    [type |-> "OrderModified", order_id |-> order_id,
     new_quantity |-> new_price, new_price |-> new_quantity]

OrderModified(order_id, new_quantity, new_price) ==
    [type |-> "OrderModified", order_id |-> order_id,
     new_quantity |-> new_quantity, new_price |-> new_price]

OrderRejected(order_id, reason) ==
    [type |-> "OrderRejected", order_id |-> order_id, reason |-> reason]

\* the event NotifyTopOfBookUpdate computes from the book
TopOfBookUpdate(st) ==
    LET best_bid == GetBestBidOf(st)
        best_ask == GetBestAskOf(st)
    IN [type |-> "TopOfBookUpdate",
        best_bid |-> best_bid,
        best_ask |-> best_ask,
        bid_volume |-> IF best_bid > 0 /\ best_bid \in DOMAIN st.bids_
                       THEN st.bids_[best_bid].total_volume_ ELSE 0,
        ask_volume |-> IF best_ask > 0 /\ best_ask \in DOMAIN st.asks_
                       THEN st.asks_[best_ask].total_volume_ ELSE 0]

\* --------------------------------------------------------------- commands
\* what the caller and the observers get to see of one command
Command(cmd, order_id, is_buy, quantity, price, result) ==
    [cmd |-> cmd, order_id |-> order_id, is_buy |-> is_buy,
     quantity |-> quantity, price |-> price, result |-> result]

Commit(st) ==
    /\ order_map_' = st.order_map_
    /\ bids_' = st.bids_
    /\ asks_' = st.asks_
    /\ orders' = st.orders

\* Reject with a seeded fault: the rejection path drops the id from the index first
Reject_DropsOrder(cmd, order_id, is_buy, quantity, price, exception, reason) ==
    /\ last' = Command(cmd, order_id, is_buy, quantity, price, exception)
    /\ events' = <<OrderRejected(order_id, reason)>>
    /\ order_map_' = MapErase(order_map_, order_id)
    /\ UNCHANGED <<bids_, asks_, orders>>

\* Reject with a seeded fault: the rejection path also publishes the top of book
Reject_WithTopOfBook(cmd, order_id, is_buy, quantity, price, exception, reason) ==
    /\ last' = Command(cmd, order_id, is_buy, quantity, price, exception)
    /\ events' = <<OrderRejected(order_id, reason), TopOfBookUpdate(EngineState)>>
    /\ UNCHANGED <<order_map_, bids_, asks_, orders>>

\* NotifyOrderRejected(order_id, reason); throw
Reject(cmd, order_id, is_buy, quantity, price, exception, reason) ==
    /\ last' = Command(cmd, order_id, is_buy, quantity, price, exception)
    /\ events' = <<OrderRejected(order_id, reason)>>
    /\ UNCHANGED <<order_map_, bids_, asks_, orders>>

AddOrder(order_id, is_buy, quantity, price) ==
    IF quantity = 0
    THEN Reject("Add", order_id, is_buy, quantity, price, "invalid_argument",
                "Order quantity must be greater than zero")
    ELSE IF order_id \in DOMAIN order_map_
    THEN Reject("Add", order_id, is_buy, quantity, price, "runtime_error",
                "Order ID already exists")
    ELSE LET new_order == NewPtr(orders, order_id)
             st0 == [EngineState EXCEPT !.orders =
                        MapPut(@, new_order, NewOrder(order_id, is_buy, quantity, price))]
         IN \E m \in {MatchOrders(st0, new_order)} :
            /\ last' = Command("Add", order_id, is_buy, quantity, price, "ok")
            /\ IF m.st.orders[new_order].quantity > 0
               THEN \E st1 \in {AddRestingOrder(m.st, new_order)} :
                       /\ Commit(st1)
                       /\ events' = TradeEvents(m.trades)
                                    \o <<OrderAcknowledged(order_id), TopOfBookUpdate(st1)>>
               ELSE /\ Commit([m.st EXCEPT !.orders = MapErase(@, new_order)])
                    /\ events' = TradeEvents(m.trades)

CancelOrder(order_id) ==
    IF order_id \notin DOMAIN order_map_
    THEN Reject("Cancel", order_id, FALSE, 0, 0, "runtime_error", "Order ID not found")
    ELSE LET order_to_cancel == order_map_[order_id]
             parent == orders[order_to_cancel].parent_price_level
             book == SideBook(EngineState, parent[1])
             r == PL_RemoveOrder(book[parent[2]], orders, order_to_cancel, parent)
             st1 == IF parent # NullLevel
                    THEN [WithSideBook(EngineState, parent[1],
                                       [book EXCEPT ![parent[2]] = r.level])
                              EXCEPT !.orders = r.orders]
                    ELSE EngineState
         IN IF parent # NullLevel /\ r.threw
            THEN \* the exception of RemoveOrder leaves CancelOrder
                 /\ last' = Command("Cancel", order_id, FALSE, 0, 0, "runtime_error")
                 /\ events' = <<>>
                 /\ UNCHANGED <<order_map_, bids_, asks_, orders>>
            ELSE LET st2 == [st1 EXCEPT !.order_map_ = MapErase(@, order_id),
                                        !.orders = MapErase(@, order_to_cancel)]
                 IN /\ last' = Command("Cancel", order_id, FALSE, 0, 0, "ok")
                    /\ Commit(st2)
                    /\ events' = <<OrderCancelled(order_id), TopOfBookUpdate(st2)>>

ModifyOrder(order_id, new_quantity, new_price) ==
    IF new_quantity = 0
    THEN Reject("Modify", order_id, FALSE, new_quantity, new_price, "invalid_argument",
                "Modified order quantity must be greater than zero")
    ELSE IF order_id \notin DOMAIN order_map_
    THEN Reject("Modify", order_id, FALSE, new_quantity, new_price, "runtime_error",
                "Order ID not found")
    ELSE IF orders[order_map_[order_id]].parent_price_level = NullLevel
    THEN Reject("Modify", order_id, FALSE, new_quantity, new_price, "runtime_error",
                "Cannot modify filled order")
    ELSE LET existing_order == order_map_[order_id]
             original_price == orders[existing_order].price
             is_buy == orders[existing_order].is_buy_side
             original_price_level == orders[existing_order].parent_price_level
             book == SideBook(EngineState, original_price_level[1])
             r == PL_RemoveOrder(book[original_price_level[2]], orders, existing_order,
                                 original_price_level)
             st1 == [WithSideBook(EngineState, original_price_level[1],
                                  [book EXCEPT ![original_price_level[2]] = r.level])
                         EXCEPT !.orders = r.orders,
                                !.order_map_ = MapErase(@, order_id)]
             \* bids_.erase(original_price) / asks_.erase(original_price)
             st2 == IF r.level.total_volume_ = 0
                    THEN WithSideBook(st1, is_buy,
                                      MapErase(SideBook(st1, is_buy), original_price))
                    ELSE st1
             st3 == [st2 EXCEPT !.orders = MapErase(@, existing_order)]
             new_order == NewPtr(st3.orders, order_id)
             st4 == [st3 EXCEPT !.orders =
                        MapPut(@, new_order, NewOrder(order_id, is_buy, new_quantity, new_price))]
         IN IF r.threw
            THEN /\ last' = Command("Modify", order_id, is_buy, new_quantity, new_price,
                                    "runtime_error")
                 /\ events' = <<>>
                 /\ UNCHANGED <<order_map_, bids_, asks_, orders>>
            ELSE \E m \in {MatchOrders(st4, new_order)} :
                 /\ last' = Command("Modify", order_id, is_buy, new_quantity, new_price, "ok")
                 /\ IF m.st.orders[new_order].quantity > 0
                    THEN \E st5 \in {AddRestingOrder(m.st, new_order)} :
                            /\ Commit(st5)
                            /\ events' = TradeEvents(m.trades)
                                         \o <<OrderModified(order_id, new_quantity, new_price),
                                              TopOfBookUpdate(st5)>>
                    ELSE \E st5 \in {[m.st EXCEPT !.orders = MapErase(@, new_order)]} :
                            /\ Commit(st5)
                            /\ events' = TradeEvents(m.trades) \o <<TopOfBookUpdate(st5)>>

\* no command is in progress: the engine is entered from one thread, a command
\* runs to its return or throw before the caller can issue the next one
NoCommand == Command("none", 0, FALSE, 0, 0, "ok")

Idle == last = NoCommand

\* the command returns (or its exception arrives) at the caller
Return ==
    /\ ~Idle
    /\ last' = NoCommand
    /\ events' = <<>>
    /\ UNCHANGED <<order_map_, bids_, asks_, orders>>

\* no command is inside a Notify* call
NoEvent == [type |-> "none"]

NoFrame ==
    [cmd |-> NoCommand, event |-> NoEvent, it |-> 0, todo |-> <<>>,
     entry |-> [order_map_ |-> EmptyMap, bids_ |-> EmptyMap, asks_ |-> EmptyMap,
                orders |-> EmptyMap],
     nested |-> 0, failed |-> FALSE, start |-> <<>>, mutated |-> FALSE]

\* ModifyOrder's locals original_price and existing_order->quantity, kept
\* for the properties that compare a replacement with the order it replaced
NotReplaced == [price |-> 0, quantity |-> 0]

Replaced(order_id) ==
    IF order_id \in DOMAIN order_map_
    THEN [price |-> orders[order_map_[order_id]].price,
          quantity |-> orders[order_map_[order_id]].quantity]
    ELSE NotReplaced

\* the caller reads the four getters before it adds an order
NotQuoted ==
    [order_id |-> 0, best_bid |-> 0, best_ask |-> 0, bid_volume |-> 0, ask_volume |-> 0]

Quote(order_id) ==
    [order_id |-> order_id, best_bid |-> GetBestBid, best_ask |-> GetBestAsk,
     bid_volume |-> GetTotalBidVolume, ask_volume |-> GetTotalAskVolume]

\* the IClient objects behind the client ids, the execution ids of the trades
\* and the PriceLevel on its own are followed by the specifications that are
\* about them (SpecLifecycle, SpecExecutions, SpecPriceLevel); the others
\* leave them as they start
NoFill == [order |-> 0, quantity |-> 0, trades |-> <<>>]

\* MatchOrders is not being followed
NoWalk == [running |-> FALSE]

NoStamps == [ts_received |-> 0, ts_executed |-> 0]

NoQuotes == [computed |-> FALSE, best_bid |-> 0, best_ask |-> 0, spread |-> 0, mid_price |-> 0]

Unfollowed ==
    /\ pointee = EmptyMap
    /\ calls = EmptyMap
    /\ last_order_number = 0
    /\ executions = <<>>
    /\ price_level = NewPriceLevel
    /\ last_fill = NoFill
    /\ walk = NoWalk
    /\ id_counter = 0
    /\ thread_results = EmptyMap
    /\ now = 0
    /\ stamps = EmptyMap
    /\ trade_stamps = NoStamps
    /\ derived = NoQuotes

NoObservers == UNCHANGED <<pointee, calls>>

NoExecutionIds == UNCHANGED <<last_order_number, executions>>

NoPriceLevel == UNCHANGED <<price_level, last_fill>>

NoClock == UNCHANGED <<now, stamps, trade_stamps>>

\* MatchOrders runs inside its command, no thread draws ids on its own and no
\* client derives quotes
Elsewhere == UNCHANGED <<walk, id_counter, thread_results, derived>>

Init ==
    /\ order_map_ = EmptyMap
    /\ bids_ = EmptyMap
    /\ asks_ = EmptyMap
    /\ orders = EmptyMap
    /\ last = NoCommand
    /\ events = <<>>
    /\ replaced = NotReplaced
    /\ quoted = NotQuoted
    /\ clients_ = <<>>
    /\ registration = <<>>
    /\ frame = NoFrame
    /\ delivered = <<>>
    /\ Unfollowed

\* no client is registered: the Notify* loops of a command run no callback
Unobserved ==
    /\ UNCHANGED <<clients_, registration, frame, delivered>>
    /\ NoObservers /\ NoPriceLevel /\ Elsewhere

\* the caller of a book without clients calls a command
CallAddOrder(order_id, is_buy, quantity, price) ==
    /\ Idle /\ AddOrder(order_id, is_buy, quantity, price)
    /\ replaced' = NotReplaced
    /\ quoted' = IF last'.result = "ok" /\ Head(events').type = "OrderAcknowledged"
                  THEN Quote(order_id) ELSE NotQuoted
    /\ Unobserved

CallCancelOrder(order_id) ==
    /\ Idle /\ CancelOrder(order_id)
    /\ replaced' = NotReplaced
    /\ quoted' = NotQuoted
    /\ Unobserved

CallModifyOrder(order_id, new_quantity, new_price) ==
    /\ Idle /\ ModifyOrder(order_id, new_quantity, new_price)
    /\ replaced' = IF last'.result = "ok" THEN Replaced(order_id) ELSE NotReplaced
    /\ quoted' = NotQuoted
    /\ Unobserved

\* the caller has taken the result
Returned == Return /\ replaced' = NotReplaced /\ UNCHANGED quoted /\ Unobserved

Next ==
    \/ \E id \in OrderIds, b \in BOOLEAN, q \in Quantities, p \in Prices :
            CallAddOrder(id, b, q, p) /\ NoExecutionIds /\ NoClock
    \/ \E id \in OrderIds :
            CallCancelOrder(id) /\ NoExecutionIds /\ NoClock
    \/ \E id \in OrderIds, q \in Quantities, p \in Prices :
            CallModifyOrder(id, q, p) /\ NoExecutionIds /\ NoClock
    \/ Returned /\ NoExecutionIds /\ NoClock

Spec == Init /\ [][Next]_vars

\* ------------------------------------------------- commands, step by step
\* With clients registered a command is not one step: every Notify* call
\* runs the clients' callbacks in the middle of the command, and a callback
\* may throw or call back into the engine.  A command is its statements up
\* to the first Notify* call (Begin*) and the list of statements that
\* follow: Notify* calls and, between them, AddRestingOrder, delete, throw.
Notify(event) == [op |-> "Notify", event |-> event]

NotifyTopOfBookUpdate == [op |-> "NotifyTopOfBookUpdate"]

Rest(p) == [op |-> "AddRestingOrder", p |-> p]

Delete(p) == [op |-> "delete", p |-> p]

Throw(exception) == [op |-> "throw", exception |-> exception]

RECURSIVE NotifyTrades(_)
NotifyTrades(trades) ==
    IF trades = <<>> THEN <<>>
    ELSE <<Notify(TradeExecuted(Head(trades)))>> \o NotifyTrades(Tail(trades))

Rejection(st, order_id, exception, reason) ==
    [st |-> st, todo |-> <<Notify(OrderRejected(order_id, reason)), Throw(exception)>>]

BeginAddOrder(st, order_id, is_buy, quantity, price) ==
    IF quantity = 0
    THEN Rejection(st, order_id, "invalid_argument", "Order quantity must be greater than zero")
    ELSE IF order_id \in DOMAIN st.order_map_
    THEN Rejection(st, order_id, "runtime_error", "Order ID already exists")
    ELSE LET new_order == NewPtr(st.orders, order_id)
             st0 == [st EXCEPT !.orders =
                        MapPut(@, new_order, NewOrder(order_id, is_buy, quantity, price))]
             m == MatchOrders(st0, new_order)
         IN [st |-> m.st,
             todo |-> NotifyTrades(m.trades)
                      \o (IF m.st.orders[new_order].quantity > 0
                          THEN <<Rest(new_order), Notify(OrderAcknowledged(order_id)),
                                 NotifyTopOfBookUpdate>>
                          ELSE <<Delete(new_order)>>)]

\* BeginCancelOrder with a seeded fault: the callbacks run before order_map_.erase(it)
BeginCancelOrder_KeepsIndex(st, order_id) ==
    IF order_id \notin DOMAIN st.order_map_
    THEN Rejection(st, order_id, "runtime_error", "Order ID not found")
    ELSE [st |-> st, todo |-> <<Notify(OrderCancelled(order_id)), NotifyTopOfBookUpdate>>]

BeginCancelOrder(st, order_id) ==
    IF order_id \notin DOMAIN st.order_map_
    THEN Rejection(st, order_id, "runtime_error", "Order ID not found")
    ELSE LET order_to_cancel == st.order_map_[order_id]
             parent == st.orders[order_to_cancel].parent_price_level
             book == SideBook(st, parent[1])
             r == PL_RemoveOrder(book[parent[2]], st.orders, order_to_cancel, parent)
             st1 == IF parent # NullLevel
                    THEN [WithSideBook(st, parent[1], [book EXCEPT ![parent[2]] = r.level])
                              EXCEPT !.orders = r.orders]
                    ELSE st
         IN IF parent # NullLevel /\ r.threw
            THEN [st |-> st, todo |-> <<Throw("runtime_error")>>]
            ELSE [st |-> [st1 EXCEPT !.order_map_ = MapErase(@, order_id),
                                     !.orders = MapErase(@, order_to_cancel)],
                  todo |-> <<Notify(OrderCancelled(order_id)), NotifyTopOfBookUpdate>>]

BeginModifyOrder(st, order_id, new_quantity, new_price) ==
    IF new_quantity = 0
    THEN Rejection(st, order_id, "invalid_argument",
                   "Modified order quantity must be greater than zero")
    ELSE IF order_id \notin DOMAIN st.order_map_
    THEN Rejection(st, order_id, "runtime_error", "Order ID not found")
    ELSE IF st.orders[st.order_map_[order_id]].parent_price_level = NullLevel
    THEN Rejection(st, order_id, "runtime_error", "Cannot modify filled order")
    ELSE LET existing_order == st.order_map_[order_id]
             original_price == st.orders[existing_order].price
             is_buy == st.orders[existing_order].is_buy_side
             original_price_level == st.orders[existing_order].parent_price_level
             book == SideBook(st, original_price_level[1])
             r == PL_RemoveOrder(book[original_price_level[2]], st.orders, existing_order,
                                 original_price_level)
             st1 == [WithSideBook(st, original_price_level[1],
                                  [book EXCEPT ![original_price_level[2]] = r.level])
                         EXCEPT !.orders = r.orders,
                                !.order_map_ = MapErase(@, order_id)]
             st2 == IF r.level.total_volume_ = 0
                    THEN WithSideBook(st1, is_buy,
                                      MapErase(SideBook(st1, is_buy), original_price))
                    ELSE st1
             st3 == [st2 EXCEPT !.orders = MapErase(@, existing_order)]
             new_order == NewPtr(st3.orders, order_id)
             st4 == [st3 EXCEPT !.orders =
                        MapPut(@, new_order, NewOrder(order_id, is_buy, new_quantity, new_price))]
             m == MatchOrders(st4, new_order)
         IN IF r.threw
            THEN [st |-> st, todo |-> <<Throw("runtime_error")>>]
            ELSE [st |-> m.st,
                  todo |-> NotifyTrades(m.trades)
                           \o (IF m.st.orders[new_order].quantity > 0
                               THEN <<Rest(new_order),
                                      Notify(OrderModified(order_id, new_quantity, new_price))>>
                               ELSE <<Delete(new_order)>>)
                           \o <<NotifyTopOfBookUpdate>>]

\* the command a Command record names, begun in state st
Begin(st, c) ==
    CASE c.cmd = "Add" -> BeginAddOrder(st, c.order_id, c.is_buy, c.quantity, c.price)
      [] c.cmd = "Cancel" -> BeginCancelOrder(st, c.order_id)
      [] c.cmd = "Modify" -> BeginModifyOrder(st, c.order_id, c.quantity, c.price)

\* the event a Notify* call hands to the callbacks
EventOf(st, step) ==
    IF step.op = "NotifyTopOfBookUpdate" THEN TopOfBookUpdate(st) ELSE step.event

IsNotify(step) == step.op \in {"Notify", "NotifyTopOfBookUpdate"}

\* the statements up to the next Notify* call that has a callback to run;
\* result is "running" at such a call, else the way the command has left
RECURSIVE Advance(_, _, _, _)
Advance(st, todo, evs, observed) ==
    IF todo = <<>> THEN [st |-> st, todo |-> todo, events |-> evs, result |-> "ok"]
    ELSE LET step == Head(todo)
         IN CASE IsNotify(step) ->
                    IF observed
                    THEN [st |-> st, todo |-> todo, events |-> evs, result |-> "running"]
                    ELSE Advance(st, Tail(todo), Append(evs, EventOf(st, step)), observed)
              [] step.op = "AddRestingOrder" ->
                    Advance(AddRestingOrder(st, step.p), Tail(todo), evs, observed)
              [] step.op = "delete" ->
                    Advance([st EXCEPT !.orders = MapErase(@, step.p)], Tail(todo), evs,
                            observed)
              [] step.op = "throw" ->
                    [st |-> st, todo |-> <<>>, events |-> evs, result |-> step.exception]

\* the whole command when no callback does anything but return
Run(st, c) ==
    LET b == Begin(st, c)
    IN Advance(b.st, b.todo, <<>>, FALSE)

\* every callback of a list of events, when each returns
RECURSIVE ToEach(_, _)
ToEach(event, ids) ==
    IF ids = <<>> THEN <<>>
    ELSE <<[client |-> Head(ids), event |-> event]>> \o ToEach(event, Tail(ids))

RECURSIVE Fanout(_, _)
Fanout(evs, ids) ==
    IF evs = <<>> THEN <<>>
    ELSE ToEach(Head(evs), ids) \o Fanout(Tail(evs), ids)

\* a command is inside a Notify* call: frame.event is the event of the call
\* and clients_[frame.it] the client whose callback runs next.  The frame of
\* a command that has left stays, like `last`, until the caller has taken the
\* result.
Running == frame # NoFrame /\ last = NoCommand

\* on from the statement that follows a Notify* call
Continue(st, fr, evs, log, ids) ==
    \E a \in {Advance(st, fr.todo, evs, ids # <<>>)} :
       /\ Commit(a.st)
       /\ delivered' = log
       /\ IF a.result = "running"
          THEN /\ events' = Append(a.events, EventOf(a.st, Head(a.todo)))
               /\ frame' = [fr EXCEPT !.event = EventOf(a.st, Head(a.todo)),
                                      !.it = 1, !.todo = Tail(a.todo), !.start = ids]
               /\ last' = NoCommand
          ELSE /\ events' = a.events
               /\ frame' = [fr EXCEPT !.event = NoEvent, !.it = 0, !.todo = <<>>]
               /\ last' = [fr.cmd EXCEPT !.result = a.result]

\* the caller enters a command
Enter(c) ==
    /\ Idle /\ frame = NoFrame
    /\ \E b \in {Begin(EngineState, c)} :
          Continue(b.st, [NoFrame EXCEPT !.cmd = c, !.todo = b.todo, !.entry = EngineState],
                   <<>>, <<>>, clients_)

EnterAddOrder(order_id, is_buy, quantity, price) ==
    Enter(Command("Add", order_id, is_buy, quantity, price, "running"))

EnterCancelOrder(order_id) ==
    Enter(Command("Cancel", order_id, FALSE, 0, 0, "running"))

EnterModifyOrder(order_id, new_quantity, new_price) ==
    Enter(Command("Modify", order_id,
                  IF order_id \in DOMAIN order_map_
                  THEN orders[order_map_[order_id]].is_buy_side ELSE FALSE,
                  new_quantity, new_price, "running"))

\* Callee with a seeded fault: the loop never advances its iterator
Callee_First == clients_[1]

\* for (const auto& [client_id, client] : clients_): the client called next
Callee == clients_[frame.it]

Called(log) == Append(log, [client |-> Callee, event |-> frame.event])

\* ++it, and on behind the loop after the last client
Resume(st, fr, evs, log, ids) ==
    IF fr.it < Len(ids)
    THEN /\ Commit(st)
         /\ frame' = [fr EXCEPT !.it = @ + 1]
         /\ events' = evs
         /\ delivered' = log
         /\ last' = NoCommand
    ELSE Continue(st, fr, evs, log, ids)

\* client->OnX(...) returns
CallbackReturns ==
    /\ Running
    /\ Resume(EngineState, frame, events, Called(delivered), clients_)

\* client->OnX(...) throws a std::exception: catch (const std::exception& e)
\* logs it and the loop goes on
CallbackThrows ==
    /\ Running
    /\ Resume(EngineState, [frame EXCEPT !.failed = TRUE], events, Called(delivered),
              clients_)

\* client->OnX(...) throws something that is no std::exception: no handler in
\* Notify* nor in the command, the exception leaves the command where it stands
CallbackThrowsOther ==
    /\ Running
    /\ frame' = [frame EXCEPT !.failed = TRUE, !.it = 0, !.todo = <<>>]
    /\ last' = [frame.cmd EXCEPT !.result = "exception"]
    /\ delivered' = Called(delivered)
    /\ UNCHANGED <<order_map_, bids_, asks_, orders, events>>

\* the order ids in use while clients are registered, and the number of
\* commands the callbacks of one outer command may issue
MaxObservedOrderId == 2

ObservedOrderIds == 1..MaxObservedOrderId

MaxNested == 1

Commands ==
    {Command("Add", id, b, q, p, "running") :
        id \in ObservedOrderIds, b \in BOOLEAN, q \in Quantities, p \in Prices}
    \cup {Command("Cancel", id, FALSE, 0, 0, "running") : id \in ObservedOrderIds}
    \cup {Command("Modify", id, FALSE, q, p, "running") :
            id \in ObservedOrderIds, q \in Quantities, p \in Prices}

\* client->OnX(...) calls AddOrder, CancelOrder or ModifyOrder of the book and
\* returns; the exception of a rejected inner command is a std::exception
CallbackCommand(c) ==
    /\ Running
    /\ frame.nested < MaxNested
    /\ \E r \in {Run(EngineState, c)} :
          Resume(r.st, [frame EXCEPT !.nested = @ + 1], events \o r.events,
                 Called(delivered) \o Fanout(r.events, clients_), clients_)

\* the caller takes the result of the command; the book is followed no
\* further once an exception of a callback has left a command
Leave ==
    /\ Return
    /\ last.result # "exception"
    /\ frame' = NoFrame
    /\ delivered' = <<>>

\* what the commands and the callbacks above leave alone
Untouched ==
    /\ UNCHANGED <<replaced, quoted, clients_, registration>>
    /\ NoObservers /\ NoExecutionIds /\ NoClock /\ NoPriceLevel /\ Elsewhere

\* the book after construction and RegisterClient of the clients in ids
Observed(ids) ==
    /\ order_map_ = EmptyMap
    /\ bids_ = EmptyMap
    /\ asks_ = EmptyMap
    /\ orders = EmptyMap
    /\ last = NoCommand
    /\ events = <<>>
    /\ replaced = NotReplaced
    /\ quoted = NotQuoted
    /\ clients_ = ids
    /\ registration = ids
    /\ frame = NoFrame
    /\ delivered = <<>>
    /\ Unfollowed

\* clients 1 and 2 are registered; their callbacks return or throw
InitCallbacks == Observed(<<1, 2>>)

NextCallbacks ==
    \/ \E id \in ObservedOrderIds, b \in BOOLEAN, q \in Quantities, p \in Prices :
            EnterAddOrder(id, b, q, p) /\ Untouched
    \/ \E id \in ObservedOrderIds :
            EnterCancelOrder(id) /\ Untouched
    \/ \E id \in ObservedOrderIds, q \in Quantities, p \in Prices :
            EnterModifyOrder(id, q, p) /\ Untouched
    \/ CallbackReturns /\ Untouched
    \/ CallbackThrows /\ Untouched
    \/ CallbackThrowsOther /\ Untouched
    \/ Leave /\ Untouched

SpecCallbacks == InitCallbacks /\ [][NextCallbacks]_vars

\* client 1 is registered; its callbacks return or call back into the book.
\* The book is followed up to the return of a command whose callbacks have
\* called back.
InitReentrant == Observed(<<1>>)

NextReentrant ==
    \/ \E id \in ObservedOrderIds, b \in BOOLEAN, q \in Quantities, p \in Prices :
            EnterAddOrder(id, b, q, p) /\ Untouched
    \/ \E id \in ObservedOrderIds :
            EnterCancelOrder(id) /\ Untouched
    \/ \E id \in ObservedOrderIds, q \in Quantities, p \in Prices :
            EnterModifyOrder(id, q, p) /\ Untouched
    \/ CallbackReturns /\ Untouched
    \/ \E c \in Commands : CallbackCommand(c) /\ Untouched
    \/ Leave /\ frame.nested = 0 /\ Untouched

SpecReentrant == InitReentrant /\ [][NextReentrant]_vars

\* client 1 is registered and its callbacks return; the caller uses every
\* order id, so that one command can trade with two resting orders and
\* client 1 is called for the first trade while the second is still to be
\* reported
NextObserved ==
    \/ \E id \in OrderIds, b \in BOOLEAN, q \in Quantities, p \in Prices :
            EnterAddOrder(id, b, q, p) /\ Untouched
    \/ \E id \in OrderIds :
            EnterCancelOrder(id) /\ Untouched
    \/ \E id \in OrderIds, q \in Quantities, p \in Prices :
            EnterModifyOrder(id, q, p) /\ Untouched
    \/ CallbackReturns /\ Untouched
    \/ Leave /\ Untouched

SpecObserved == InitReentrant /\ [][NextObserved]_vars

\* ------------------------------------------------------- the client registry
\* clients_ is a std::unordered_map keyed by client id.  Its iteration order
\* is not specified: an insertion may put the new element at any place, and
\* when it rehashes, the elements may come out in any order.
MaxClientId == 3

ClientIds == 1..MaxClientId

\* the callbacks a Notify* loop may run, re-runs by a stray iterator included
MaxCalls == 4

Initialize == [type |-> "Initialize"]

Shutdown == [type |-> "Shutdown"]

IndexOf(ids, c) == CHOOSE i \in 1..Len(ids) : ids[i] = c

InsertAt(ids, i, c) == SubSeq(ids, 1, i - 1) \o <<c>> \o SubSeq(ids, i, Len(ids))

\* every order the elements can come out in after c has been inserted
IterationOrders(set) ==
    {ids \in [1..Cardinality(set) -> set] : \A c \in set : \E i \in DOMAIN ids : ids[i] = c}

AsSet(ids) == {ids[i] : i \in DOMAIN ids}

\* clients_[client->GetClientId()] = client; client->Initialize(), from
\* outside a command
RegisterClient(c) ==
    /\ Idle /\ frame = NoFrame
    /\ IF SeqContains(clients_, c)
       THEN UNCHANGED <<clients_, registration>>
       ELSE /\ clients_' \in IterationOrders(AsSet(clients_) \cup {c})
            /\ registration' = Append(registration, c)
    /\ last' = Command("Register", c, FALSE, 0, 0, "ok")
    /\ delivered' = <<[client |-> c, event |-> Initialize]>>
    /\ UNCHANGED <<order_map_, bids_, asks_, orders, events, frame>>

\* it = clients_.find(client_id); it->second->Shutdown(); clients_.erase(it)
UnregisterClient(c) ==
    /\ Idle /\ frame = NoFrame
    /\ last' = Command("Unregister", c, FALSE, 0, 0, "ok")
    /\ IF SeqContains(clients_, c)
       THEN /\ clients_' = SeqRemove(clients_, c)
            /\ registration' = SeqRemove(registration, c)
            /\ delivered' = <<[client |-> c, event |-> Shutdown]>>
       ELSE /\ UNCHANGED <<clients_, registration>>
            /\ delivered' = <<>>
    /\ UNCHANGED <<order_map_, bids_, asks_, orders, events, frame>>

\* one event of each kind, as a command hands it to its Notify* function
SampleEvents ==
    {TradeExecuted(MakeTrade(NewOrder(2, TRUE, 1, 1), NewOrder(1, FALSE, 1, 1), 1, 1)),
     OrderAcknowledged(1), OrderCancelled(1), OrderModified(1, 1, 1),
     OrderRejected(1, "Order ID not found"),
     TopOfBookUpdate(EngineState)}

\* a Notify* function is called with an event
EnterNotify(event) ==
    /\ Idle /\ frame = NoFrame
    /\ Continue(EngineState,
                [NoFrame EXCEPT !.cmd = Command("Notify", 0, FALSE, 0, 0, "running"),
                                !.todo = <<Notify(event)>>, !.entry = EngineState],
                <<>>, <<>>, clients_)

\* the loop goes on with an iterator that erase or a rehash has invalidated:
\* undefined behaviour.  The loop may go on at any element or end, or the
\* program stops inside the loop.
StrayIterator(fr, log, ids) ==
    \/ \E i \in 0..Len(ids) : Resume(EngineState, [fr EXCEPT !.it = i], events, log, ids)
    \/ /\ frame' = [fr EXCEPT !.it = 0]
       /\ last' = [fr.cmd EXCEPT !.result = "crashed"]
       /\ delivered' = log
       /\ UNCHANGED <<order_map_, bids_, asks_, orders, events>>

\* client->OnX(...) calls UnregisterClient(c) of the book and returns
CallbackUnregisters(c) ==
    /\ Running
    /\ Len(delivered) < MaxCalls
    /\ SeqContains(clients_, c)
    /\ clients_' = SeqRemove(clients_, c)
    /\ registration' = SeqRemove(registration, c)
    /\ LET log == Append(Called(delivered), [client |-> c, event |-> Shutdown])
           fr == [frame EXCEPT !.mutated = TRUE]
       IN IF c = Callee
          THEN StrayIterator(fr, log, SeqRemove(clients_, c))
          ELSE \* the iterator stays at the element of the callee
               Resume(EngineState,
                      [fr EXCEPT !.it = IF IndexOf(clients_, c) < frame.it THEN @ - 1 ELSE @],
                      events, log, SeqRemove(clients_, c))

\* client->OnX(...) calls RegisterClient of the book with a client that is
\* not registered, and returns
CallbackRegisters(c) ==
    /\ Running
    /\ Len(delivered) < MaxCalls
    /\ ~SeqContains(clients_, c)
    /\ registration' = Append(registration, c)
    /\ LET log == Append(Called(delivered), [client |-> c, event |-> Initialize])
           fr == [frame EXCEPT !.mutated = TRUE]
       IN \/ \* no rehash: the iterator stays at the element of the callee
             \E i \in 1..(Len(clients_) + 1) :
                /\ clients_' = InsertAt(clients_, i, c)
                /\ Resume(EngineState, [fr EXCEPT !.it = IF i <= frame.it THEN @ + 1 ELSE @],
                          events, log, InsertAt(clients_, i, c))
          \/ \* rehash: every iterator is invalidated
             \E ids \in IterationOrders(AsSet(clients_) \cup {c}) :
                /\ clients_' = ids
                /\ StrayIterator(fr, log, ids)

\* what the client management and the Notify* loops leave alone
Unmanaged ==
    /\ UNCHANGED <<replaced, quoted>>
    /\ NoObservers /\ NoExecutionIds /\ NoClock /\ NoPriceLevel /\ Elsewhere

NextFanout ==
    \/ \E c \in ClientIds : RegisterClient(c) /\ Unmanaged
    \/ \E c \in ClientIds : UnregisterClient(c) /\ Unmanaged
    \/ \E e \in SampleEvents : EnterNotify(e) /\ Untouched
    \/ CallbackReturns /\ Untouched
    \/ CallbackThrows /\ Untouched
    \/ \E c \in ClientIds : CallbackRegisters(c) /\ Unmanaged
    \/ \E c \in ClientIds : CallbackUnregisters(c) /\ Unmanaged
    \/ Leave /\ last.result # "crashed" /\ Untouched

SpecFanout == Init /\ [][NextFanout]_vars

\* ------------------------------------------------------- execution ids
\* Helpers::last_order_number is a static std::atomic<uint64_t> of the
\* process: every PriceLevel::FillOrder of every OrderBook draws the
\* execution id of a trade from it.
MaxExecutionId == 4

\* GenerateExecutionId with a seeded fault: the counter is read, not advanced
GenerateExecutionId_Load(n) == [id |-> n, next |-> n]

\* last_order_number.fetch_add(1, std::memory_order_relaxed): returns the
\* value before the addition
GenerateExecutionId(n) == [id |-> n, next |-> n + 1]

\* the execution ids of k trades in the order FillOrder makes them
RECURSIVE Issue(_, _)
Issue(k, n) ==
    IF k = 0 THEN [ids |-> <<>>, next |-> n]
    ELSE LET g == GenerateExecutionId(n)
             r == Issue(k - 1, g.next)
         IN [ids |-> <<g.id>> \o r.ids, next |-> r.next]

RECURSIVE CountTrades(_)
CountTrades(evs) ==
    IF evs = <<>> THEN 0
    ELSE (IF Head(evs).type = "TradeExecuted" THEN 1 ELSE 0) + CountTrades(Tail(evs))

\* Trade{Helpers::GenerateExecutionId(), ...} for every trade of the command
Issued ==
    \E r \in {Issue(CountTrades(events'), last_order_number)} :
        /\ r.next <= MaxExecutionId
        /\ last_order_number' = r.next
        /\ executions' = executions \o r.ids
        /\ NoClock

\* a FillOrder of another OrderBook of the process makes a trade
OtherOrderBookTrades ==
    /\ last_order_number < MaxExecutionId
    /\ last_order_number' = GenerateExecutionId(last_order_number).next
    /\ UNCHANGED <<order_map_, bids_, asks_, orders, last, events, replaced, quoted,
                   executions>>
    /\ Unobserved /\ NoClock

\* the prices in use while the execution ids are followed
MaxExecutionPrice == 0

ExecutionPrices == 0..MaxExecutionPrice

NextExecutions ==
    \/ \E id \in OrderIds, b \in BOOLEAN, q \in Quantities, p \in ExecutionPrices :
            CallAddOrder(id, b, q, p) /\ Issued
    \/ \E id \in OrderIds :
            CallCancelOrder(id) /\ Issued
    \/ \E id \in OrderIds, q \in Quantities, p \in ExecutionPrices :
            CallModifyOrder(id, q, p) /\ Issued
    \/ Returned /\ NoExecutionIds /\ NoClock
    \/ OtherOrderBookTrades

SpecExecutions == Init /\ [][NextExecutions]_vars

\* ------------------------------------------- the id generators and threads
\* GenerateOrderId and GenerateExecutionId are static functions over two
\* process-wide std::atomic<uint64_t>; any thread may call them at any time.
\* fetch_add is one atomic read-modify-write, so a call is one step.
MaxThread == 3

Threads == 1..MaxThread

\* the number of calls followed
MaxGenerated == 5

\* GenerateOrderId with a seeded fault: the counter is read with load()
GenerateOrderId_Load(n) == [id |-> n, next |-> n]

\* id_counter.fetch_add(1, std::memory_order_relaxed): the value returned and
\* the value left in the counter
GenerateOrderId(n) == [id |-> n, next |-> n + 1]

RECURSIVE SumCalls(_, _)
SumCalls(results, ts) ==
    IF ts = {} THEN 0
    ELSE LET t == CHOOSE x \in ts : TRUE
         IN Len(results[t]) + SumCalls(results, ts \ {t})

\* thread_results[t].push_back(...)
PushBack(t, generator, id) ==
    thread_results' =
        MapPut(thread_results, t,
               Append(IF t \in DOMAIN thread_results THEN thread_results[t] ELSE <<>>,
                      [generator |-> generator, id |-> id]))

\* what a call of a generator leaves alone
OtherThanCounters ==
    /\ UNCHANGED <<order_map_, bids_, asks_, orders, last, events, replaced, quoted,
                   clients_, registration, frame, delivered, executions,
                   walk, derived>>
    /\ NoObservers /\ NoPriceLevel /\ NoClock

ThreadGeneratesOrderId(t) ==
    /\ SumCalls(thread_results, DOMAIN thread_results) < MaxGenerated
    /\ \E r \in {GenerateOrderId(id_counter)} :
          /\ id_counter' = r.next
          /\ PushBack(t, "GenerateOrderId", r.id)
    /\ UNCHANGED last_order_number
    /\ OtherThanCounters

ThreadGeneratesExecutionId(t) ==
    /\ SumCalls(thread_results, DOMAIN thread_results) < MaxGenerated
    /\ \E r \in {GenerateExecutionId(last_order_number)} :
          /\ last_order_number' = r.next
          /\ PushBack(t, "GenerateExecutionId", r.id)
    /\ UNCHANGED id_counter
    /\ OtherThanCounters

NextThreads ==
    \/ \E t \in Threads : ThreadGeneratesOrderId(t)
    \/ \E t \in Threads : ThreadGeneratesExecutionId(t)

SpecThreads == Init /\ [][NextThreads]_vars

\* ------------------------------------------------- the quotes of a client
\* DatabentoMboClient derives spread and mid price from the best bid and the
\* best ask of its book.  Orders rest at any uint64_t price (the tests rest
\* one at UINT64_MAX), so the two best prices of a book with orders on both
\* sides are any pair with best bid below best ask.
OtherThanQuotes ==
    /\ UNCHANGED <<order_map_, bids_, asks_, orders, last, events, replaced, quoted,
                   clients_, registration, frame, delivered,
                   walk, id_counter, thread_results>>
    /\ NoObservers /\ NoPriceLevel /\ NoClock /\ NoExecutionIds

\* the book of the client comes to rest with these two best prices
BestPricesChange(bid, ask) ==
    /\ bid < ask
    /\ derived' = [NoQuotes EXCEPT !.best_bid = bid, !.best_ask = ask]
    /\ OtherThanQuotes

\* the client calls GetSpread() and GetMidPrice()
DeriveQuotes ==
    /\ ~derived.computed
    /\ derived.best_bid < derived.best_ask
    /\ derived' = [derived EXCEPT !.computed = TRUE,
                                  !.spread = SpreadOf(derived.best_bid, derived.best_ask),
                                  !.mid_price = MidPriceOf(derived.best_bid,
                                                           derived.best_ask)]
    /\ OtherThanQuotes

NextQuotes ==
    \/ \E bid \in TickPrices, ask \in TickPrices : BestPricesChange(bid, ask)
    \/ DeriveQuotes

SpecQuotes == Init /\ [][NextQuotes]_vars

\* ------------------------------------------------- a PriceLevel on its own
\* PriceLevel is a public class: PriceLevelTest holds one outside any book,
\* adds and removes orders it owns and calls FillOrder with any quantity.
MaxFillQuantity == 4

FillQuantities == 0..MaxFillQuantity

\* the address of price_level (this); no side book holds the level
ThisLevel == <<TRUE, 0>>

\* the address of another PriceLevel
OtherLevel == <<FALSE, 0>>

\* the order id of the incoming order handed to FillOrder
IncomingOrderId == MaxOrderId + 1

OtherThanLevel ==
    /\ UNCHANGED <<order_map_, bids_, asks_, events, replaced, quoted,
                   clients_, registration, frame, delivered>>
    /\ NoObservers /\ NoExecutionIds /\ NoClock /\ Elsewhere

\* an Order is made and price_level->AddOrder(order) puts it at the tail
LevelAddOrder(order_id, quantity) ==
    /\ Idle
    /\ Cardinality(DOMAIN orders) < MaxOrderId
    /\ \A p \in DOMAIN orders : orders[p].order_id # order_id
    /\ \E r \in {PL_AddOrder(price_level,
                             MapPut(orders, NewPtr(orders, order_id),
                                    NewOrder(order_id, TRUE, quantity, 0)),
                             NewPtr(orders, order_id), ThisLevel)} :
          /\ price_level' = r.level
          /\ orders' = r.orders
    /\ last' = Command("PriceLevel::AddOrder", order_id, TRUE, quantity, 0, "ok")
    /\ UNCHANGED last_fill
    /\ OtherThanLevel

\* an Order is made and not added to price_level: it is in no queue
\* (parent_price_level == nullptr) or in the queue of another PriceLevel
MakeOrder(order_id, quantity, parent) ==
    /\ Idle
    /\ Cardinality(DOMAIN orders) < MaxOrderId
    /\ \A p \in DOMAIN orders : orders[p].order_id # order_id
    /\ orders' = MapPut(orders, NewPtr(orders, order_id),
                        [NewOrder(order_id, TRUE, quantity, 0)
                            EXCEPT !.parent_price_level = parent])
    /\ UNCHANGED <<price_level, last, last_fill>>
    /\ OtherThanLevel

\* price_level->RemoveOrder(order); it throws for an order that is not queued
LevelRemoveOrder(p) ==
    /\ Idle
    /\ \E r \in {PL_RemoveOrder(price_level, orders, p, ThisLevel)} :
          /\ price_level' = r.level
          /\ orders' = r.orders
          /\ last' = Command("PriceLevel::RemoveOrder", orders[p].order_id, TRUE, 0, 0,
                             IF r.threw THEN "runtime_error" ELSE "ok")
    /\ UNCHANGED last_fill
    /\ OtherThanLevel

\* the owner destroys an Order that is not in the queue of price_level
DestroyOrder(p) ==
    /\ Idle
    /\ orders[p].parent_price_level # ThisLevel
    /\ orders' = MapErase(orders, p)
    /\ UNCHANGED <<price_level, last, last_fill>>
    /\ OtherThanLevel

\* std::vector<Trade> trades = price_level->FillOrder(&incoming_order, quantity):
\* the incoming order lives for the call, and FillOrder leaves its quantity alone
LevelFillOrder(quantity) ==
    /\ Idle
    /\ \E incoming \in {NewPtr(orders, IncomingOrderId)} :
       \E r \in {PL_FillOrder(price_level,
                              MapPut(orders, incoming,
                                     NewOrder(IncomingOrderId, FALSE, quantity, 0)),
                              incoming, quantity)} :
          /\ price_level' = r.level
          /\ orders' = MapErase(r.orders, incoming)
          /\ last_fill' = [order |-> IncomingOrderId, quantity |-> quantity,
                           trades |-> r.trades]
    /\ last' = Command("PriceLevel::FillOrder", IncomingOrderId, FALSE, quantity, 0, "ok")
    /\ OtherThanLevel

NextPriceLevel ==
    \/ \E id \in OrderIds, q \in Quantities \ {0} : LevelAddOrder(id, q)
    \/ \E id \in OrderIds, q \in Quantities \ {0}, parent \in {NullLevel, OtherLevel} :
            MakeOrder(id, q, parent)
    \/ \E p \in DOMAIN orders : LevelRemoveOrder(p)
    \/ \E p \in DOMAIN orders : DestroyOrder(p)
    \/ \E q \in FillQuantities : LevelFillOrder(q)
    \/ Return /\ UNCHANGED <<price_level, last_fill>> /\ OtherThanLevel

SpecPriceLevel == Init /\ [][NextPriceLevel]_vars

\* ---------------------------------------------- MatchOrders, pass by pass
\* AddOrder and ModifyOrder up to their call of MatchOrders, every pass of
\* the while loop of MatchOrders as a step of its own, and the statements
\* that follow the call.  walk.it is ask_it / bid_it, walk.entry the book the
\* command met.
Walking(c, p, st) ==
    [running |-> TRUE, cmd |-> c, p |-> p, entry |-> EngineState,
     it |-> BookBegin(SideBook(st, ~st.orders[p].is_buy_side), ~st.orders[p].is_buy_side),
     trades |-> <<>>]

\* what the walk leaves alone
Besides ==
    /\ UNCHANGED <<replaced, quoted, clients_, registration, frame, delivered>>
    /\ UNCHANGED <<id_counter, thread_results, derived>>
    /\ NoObservers /\ NoExecutionIds /\ NoClock /\ NoPriceLevel

WalkAddOrder(order_id, is_buy, quantity, price) ==
    /\ Idle /\ ~walk.running
    /\ IF quantity = 0
       THEN /\ Reject("Add", order_id, is_buy, quantity, price, "invalid_argument",
                      "Order quantity must be greater than zero")
            /\ UNCHANGED walk
       ELSE IF order_id \in DOMAIN order_map_
       THEN /\ Reject("Add", order_id, is_buy, quantity, price, "runtime_error",
                      "Order ID already exists")
            /\ UNCHANGED walk
       ELSE \E new_order \in {NewPtr(orders, order_id)} :
            \E st0 \in {[EngineState EXCEPT !.orders =
                           MapPut(@, new_order,
                                  NewOrder(order_id, is_buy, quantity, price))]} :
               /\ Commit(st0)
               /\ walk' = Walking(Command("Add", order_id, is_buy, quantity, price, "ok"),
                                  new_order, st0)
               /\ UNCHANGED <<last, events>>
    /\ Besides

WalkModifyOrder(order_id, new_quantity, new_price) ==
    /\ Idle /\ ~walk.running
    /\ IF new_quantity = 0
       THEN /\ Reject("Modify", order_id, FALSE, new_quantity, new_price,
                      "invalid_argument",
                      "Modified order quantity must be greater than zero")
            /\ UNCHANGED walk
       ELSE IF order_id \notin DOMAIN order_map_
       THEN /\ Reject("Modify", order_id, FALSE, new_quantity, new_price, "runtime_error",
                      "Order ID not found")
            /\ UNCHANGED walk
       ELSE IF orders[order_map_[order_id]].parent_price_level = NullLevel
       THEN /\ Reject("Modify", order_id, FALSE, new_quantity, new_price, "runtime_error",
                      "Cannot modify filled order")
            /\ UNCHANGED walk
       ELSE LET existing_order == order_map_[order_id]
                original_price == orders[existing_order].price
                is_buy == orders[existing_order].is_buy_side
                original_price_level == orders[existing_order].parent_price_level
                book == SideBook(EngineState, original_price_level[1])
                r == PL_RemoveOrder(book[original_price_level[2]], orders, existing_order,
                                    original_price_level)
                st1 == [WithSideBook(EngineState, original_price_level[1],
                                     [book EXCEPT ![original_price_level[2]] = r.level])
                            EXCEPT !.orders = r.orders,
                                   !.order_map_ = MapErase(@, order_id)]
                st2 == IF r.level.total_volume_ = 0
                       THEN WithSideBook(st1, is_buy,
                                         MapErase(SideBook(st1, is_buy), original_price))
                       ELSE st1
                st3 == [st2 EXCEPT !.orders = MapErase(@, existing_order)]
                new_order == NewPtr(st3.orders, order_id)
            IN IF r.threw
               THEN /\ last' = Command("Modify", order_id, is_buy, new_quantity, new_price,
                                       "runtime_error")
                    /\ events' = <<>>
                    /\ UNCHANGED <<order_map_, bids_, asks_, orders, walk>>
               ELSE \E st4 \in {[st3 EXCEPT !.orders =
                                   MapPut(@, new_order,
                                          NewOrder(order_id, is_buy, new_quantity,
                                                   new_price))]} :
                       /\ Commit(st4)
                       /\ walk' = Walking(Command("Modify", order_id, is_buy, new_quantity,
                                                  new_price, "ok"), new_order, st4)
                       /\ UNCHANGED <<last, events>>
    /\ Besides

\* while (ask_it != asks_.end() && incoming_order->quantity > 0), and no break
WalkContinues ==
    /\ walk.running
    /\ walk.it # EndIt
    /\ orders[walk.p].quantity > 0
    /\ Crosses(orders[walk.p].is_buy_side, orders[walk.p].price, walk.it)

\* one pass of the loop
WalkStep ==
    /\ WalkContinues
    /\ \E s \in {MatchStep(EngineState, walk.p, walk.it)} :
          /\ Commit(s.st)
          /\ walk' = [walk EXCEPT !.it = s.it, !.trades = @ \o s.trades]
    /\ UNCHANGED <<last, events>>
    /\ Besides

\* MatchOrders returns, and the command goes on to its end
WalkEnd ==
    /\ walk.running /\ ~WalkContinues
    /\ last' = walk.cmd
    /\ walk' = NoWalk
    /\ IF orders[walk.p].quantity > 0
       THEN \E st1 \in {AddRestingOrder(EngineState, walk.p)} :
               /\ Commit(st1)
               /\ events' = TradeEvents(walk.trades)
                            \o (IF walk.cmd.cmd = "Add"
                                THEN <<OrderAcknowledged(walk.cmd.order_id)>>
                                ELSE <<OrderModified(walk.cmd.order_id, walk.cmd.quantity,
                                                     walk.cmd.price)>>)
                            \o <<TopOfBookUpdate(st1)>>
       ELSE \E st1 \in {[EngineState EXCEPT !.orders = MapErase(@, walk.p)]} :
               /\ Commit(st1)
               /\ events' = TradeEvents(walk.trades)
                            \o (IF walk.cmd.cmd = "Add" THEN <<>>
                                ELSE <<TopOfBookUpdate(st1)>>)
    /\ Besides

NextMatching ==
    \/ \E id \in OrderIds, b \in BOOLEAN, q \in Quantities, p \in Prices :
            WalkAddOrder(id, b, q, p)
    \/ \E id \in OrderIds :
            ~walk.running /\ CallCancelOrder(id) /\ NoExecutionIds /\ NoClock
    \/ \E id \in OrderIds, q \in Quantities, p \in Prices :
            WalkModifyOrder(id, q, p)
    \/ WalkStep
    \/ WalkEnd
    \/ Returned /\ NoExecutionIds /\ NoClock

\* the thread that runs a command runs it on: a pass of the loop that can be
\* made is made, and a walk that is over returns
SpecMatching ==
    Init /\ [][NextMatching]_vars /\ WF_vars(WalkStep) /\ WF_vars(WalkEnd)

\* ------------------------------------------------------------ timestamps
\* ts_received and ts_executed of an Order decide nothing in the engine;
\* they are carried from the command into the Order and from the incoming
\* order into every Trade it makes.  They are followed beside the book:
\* `stamps` holds the pair of the order resting under each id, trade_stamps
\* the pair the trades of the last command carry.
MaxTime == 1

Times == 0..MaxTime

\* (new_price == original_price && new_quantity <= original_quantity)
KeepsExecuted(new_price, original_price, new_quantity, original_quantity) ==
    new_price = original_price /\ new_quantity <= original_quantity

\* ModifiedStamps with a seeded fault: ts_executed is refreshed by every Modify
ModifiedStamps_Refreshed(ts_received, ts_executed, keeps, time) ==
    [ts_received |-> ts_received, ts_executed |-> time]

\* new_ts_received and new_ts_executed of ModifyOrder; time is what
\* Helpers::GetTimeStamp() returns
ModifiedStamps(ts_received, ts_executed, keeps, time) ==
    [ts_received |-> ts_received,
     ts_executed |-> IF keeps THEN ts_executed ELSE time]

\* the stamps of the orders that rest after the step; `incoming` is the pair
\* of the order the command has made
Stamped(incoming) ==
    /\ stamps' = [id \in DOMAIN order_map_' |->
                    IF id = last'.order_id /\ last'.result = "ok" THEN incoming
                    ELSE stamps[id]]
    /\ trade_stamps' = IF CountTrades(events') = 0 THEN NoStamps ELSE incoming
    /\ UNCHANGED now

\* AddOrder with the two timestamps given by the caller; the legacy AddOrder
\* gives Helpers::GetTimeStamp() for both
StampedAddOrder(order_id, is_buy, quantity, price, ts_received, ts_executed) ==
    /\ CallAddOrder(order_id, is_buy, quantity, price)
    /\ Stamped([ts_received |-> ts_received, ts_executed |-> ts_executed])

StampedCancelOrder(order_id) ==
    /\ CallCancelOrder(order_id)
    /\ Stamped(NoStamps)

StampedModifyOrder(order_id, new_quantity, new_price) ==
    /\ CallModifyOrder(order_id, new_quantity, new_price)
    /\ IF order_id \in DOMAIN order_map_
       THEN Stamped(ModifiedStamps(
                       stamps[order_id].ts_received, stamps[order_id].ts_executed,
                       KeepsExecuted(new_price, orders[order_map_[order_id]].price,
                                     new_quantity, orders[order_map_[order_id]].quantity),
                       now))
       ELSE Stamped(NoStamps)

\* the system clock moves on
Tick ==
    /\ now < MaxTime
    /\ now' = now + 1
    /\ UNCHANGED <<order_map_, bids_, asks_, orders, last, events, replaced, quoted,
                   stamps, trade_stamps>>
    /\ Unobserved /\ NoExecutionIds

NextTimestamps ==
    \/ \E id \in ObservedOrderIds, b \in BOOLEAN, q \in Quantities, p \in Prices :
         \E ts_received \in Times, ts_executed \in Times :
            StampedAddOrder(id, b, q, p, ts_received, ts_executed) /\ NoExecutionIds
    \/ \E id \in ObservedOrderIds :
            StampedCancelOrder(id) /\ NoExecutionIds
    \/ \E id \in ObservedOrderIds, q \in Quantities, p \in Prices :
            StampedModifyOrder(id, q, p) /\ NoExecutionIds
    \/ Returned /\ NoExecutionIds /\ UNCHANGED <<now, stamps>> /\ trade_stamps' = NoStamps
    \/ Tick

SpecTimestamps == Init /\ [][NextTimestamps]_vars

\* -------------------------------------------- the life of a client object
\* RegisterClient takes a std::shared_ptr<IClient>; the key of clients_ is
\* what the object's GetClientId() returns, so two objects can come with the
\* same client id.
MaxObserver == 3

\* the IClient objects of the program
Observers == 1..MaxObserver

\* client->GetClientId(): objects 1 and 2 report id 1, object 3 reports id 2
GetClientId(o) == (o + 1) \div 2

\* the callbacks followed in `calls`
MaxReceived == 5

Received(o, call) == calls' = Append(calls, [observer |-> o, call |-> call])

\* clients_[client->GetClientId()] = client; client->Initialize()
RegisterObserver(o) ==
    /\ Len(calls) < MaxReceived
    /\ RegisterClient(GetClientId(o))
    /\ pointee' = MapPut(pointee, GetClientId(o), o)
    /\ Received(o, "Initialize")

\* it->second->Shutdown(); clients_.erase(it)
UnregisterObserver(c) ==
    /\ UnregisterClient(c)
    /\ IF c \in DOMAIN pointee
       THEN /\ Received(pointee[c], "Shutdown")
            /\ pointee' = MapErase(pointee, c)
       ELSE UNCHANGED <<pointee, calls>>

\* client->OnX(...) of the object clients_ holds under the id, which returns
ObserverReturns ==
    /\ Len(calls) < MaxReceived
    /\ CallbackReturns
    /\ Received(pointee[Callee], frame.event.type)
    /\ UNCHANGED pointee

\* client->Shutdown() for every element of clients_, in iteration order
RECURSIVE ShutdownAll(_, _)
ShutdownAll(ids, held) ==
    IF ids = <<>> THEN <<>>
    ELSE <<[observer |-> held[Head(ids)], call |-> "Shutdown"]>>
            \o ShutdownAll(Tail(ids), held)

\* OrderBook::~OrderBook
DestroyOrderBook ==
    /\ Idle /\ frame = NoFrame
    /\ calls' = calls \o ShutdownAll(clients_, pointee)
    /\ clients_' = <<>>
    /\ registration' = <<>>
    /\ pointee' = EmptyMap
    /\ orders' = [p \in DOMAIN orders \ {order_map_[id] : id \in DOMAIN order_map_}
                    |-> orders[p]]
    /\ order_map_' = EmptyMap
    /\ bids_' = EmptyMap
    /\ asks_' = EmptyMap
    /\ last' = Command("~OrderBook", 0, FALSE, 0, 0, "ok")
    /\ UNCHANGED <<events, frame, delivered>>

\* what the client management leaves alone when the objects are followed
Unheld ==
    /\ UNCHANGED <<replaced, quoted>>
    /\ NoExecutionIds /\ NoClock /\ NoPriceLevel /\ Elsewhere

\* no member function is called on a destroyed OrderBook
NextLifecycle ==
    \/ \E o \in Observers : RegisterObserver(o) /\ Unheld
    \/ \E c \in ClientIds : UnregisterObserver(c) /\ Unheld
    \/ EnterNotify(OrderAcknowledged(1))
            /\ UNCHANGED <<replaced, quoted, clients_, registration, pointee, calls>>
            /\ NoExecutionIds /\ NoClock /\ NoPriceLevel /\ Elsewhere
    \/ ObserverReturns /\ UNCHANGED <<clients_, registration>> /\ Unheld
    \/ DestroyOrderBook /\ Unheld
    \/ Leave /\ last.cmd # "~OrderBook"
            /\ UNCHANGED <<replaced, quoted, clients_, registration, pointee, calls>>
            /\ NoExecutionIds /\ NoClock /\ NoPriceLevel /\ Elsewhere

SpecLifecycle == Init /\ [][NextLifecycle]_vars

\* the one-step commands of Spec and the step-by-step commands agree when no
\* callback runs
StepwiseAgrees ==
    [][(last.cmd = "none" /\ last'.cmd # "none") =>
          LET r == Run(EngineState, last')
          IN /\ r.st = EngineState'
             /\ r.events = events'
             /\ r.result = last'.result
       ]_vars

\* ------------------------------------------------------------------ views
\* helpers of the properties below; they read the state on their own and
\* use none of the operators that model the engine's code
Sides == {TRUE, FALSE}

BookOf(is_bid_book) == IF is_bid_book THEN bids_ ELSE asks_

\* the same side book after the step
BookOfNext(is_bid_book) == IF is_bid_book THEN bids_' ELSE asks_'

\* every place (side, price key, position) an address is queued at
PlacesOf(p) ==
    {pl \in Sides \X Prices \X (1..(MaxOrderId + 1)) :
        /\ pl[2] \in DOMAIN BookOf(pl[1])
        /\ pl[3] \in 1..Len(BookOf(pl[1])[pl[2]].order_queue_)
        /\ BookOf(pl[1])[pl[2]].order_queue_[pl[3]] = p}

QueuedPtrs == {p \in Ptrs : PlacesOf(p) # {}}

RECURSIVE SumLens(_, _)
SumLens(book, keys) ==
    IF keys = {} THEN 0
    ELSE LET k == CHOOSE x \in keys : TRUE
         IN Len(book[k].order_queue_) + SumLens(book, keys \ {k})

QueuedCount == SumLens(bids_, DOMAIN bids_) + SumLens(asks_, DOMAIN asks_)

RECURSIVE SumQuantities(_, _)
SumQuantities(heap, queue) ==
    IF queue = <<>> THEN 0
    ELSE heap[Head(queue)].quantity + SumQuantities(heap, Tail(queue))

RECURSIVE TradesIn(_)
TradesIn(evs) ==
    IF evs = <<>> THEN <<>>
    ELSE IF Head(evs).type = "TradeExecuted"
         THEN <<Head(evs).trade>> \o TradesIn(Tail(evs))
         ELSE TradesIn(Tail(evs))

RECURSIVE SumTradeQuantities(_)
SumTradeQuantities(trades) ==
    IF trades = <<>> THEN 0
    ELSE Head(trades).quantity + SumTradeQuantities(Tail(trades))

Accepted == last.cmd # "none" /\ last.result = "ok"

\* ----------------------------------------------------------------- claims

\* C1: after every accepted command, when both side books hold at least one
\* price level, GetBestBid() < GetBestAsk(): the book is neither crossed nor
\* locked.
C1_BookNeverCrossed ==
    (DOMAIN bids_ # {} /\ DOMAIN asks_ # {}) => GetBestBid < GetBestAsk

\* an Add has just traded and both sides still hold a level
C1_Witness ==
    /\ last.cmd = "Add" /\ last.result = "ok"
    /\ TradesIn(events) # <<>>
    /\ DOMAIN bids_ # {} /\ DOMAIN asks_ # {}

\* C2: the order index and the two side books describe the same orders: each
\* indexed id refers to an order queued at exactly one place, on its own side
\* and under the key equal to its price; each queued order is indexed under
\* its id; and the index is as large as the number of queued orders.
C2_IndexMatchesBooks ==
    /\ \A id \in DOMAIN order_map_ :
          LET p == order_map_[id]
          IN /\ p \in DOMAIN orders
             /\ orders[p].order_id = id
             /\ Cardinality(PlacesOf(p)) = 1
             /\ \A pl \in PlacesOf(p) :
                   pl[1] = orders[p].is_buy_side /\ pl[2] = orders[p].price
    /\ \A p \in QueuedPtrs :
          /\ p \in DOMAIN orders
          /\ orders[p].order_id \in DOMAIN order_map_
          /\ order_map_[orders[p].order_id] = p
    /\ Cardinality(DOMAIN order_map_) = QueuedCount

\* a command that traded has left at least two orders resting
C2_Witness ==
    /\ Accepted
    /\ TradesIn(events) # <<>>
    /\ Cardinality(DOMAIN order_map_) >= 2

\* C3: for every price level of either side book, total_volume equals the
\* sum of the remaining quantities of the orders in the level's queue.
C3_VolumeMatchesQueue ==
    \A side \in Sides : \A k \in DOMAIN BookOf(side) :
        BookOf(side)[k].total_volume_ = SumQuantities(orders, BookOf(side)[k].order_queue_)

\* a partial fill has left a level holding two orders
C3_Witness ==
    /\ Accepted
    /\ TradesIn(events) # <<>>
    /\ \E side \in Sides : \E k \in DOMAIN BookOf(side) :
          /\ Len(BookOf(side)[k].order_queue_) = 2
          /\ \E i \in 1..Len(TradesIn(events)) :
                TradesIn(events)[i].resting_order_id
                    = orders[BookOf(side)[k].order_queue_[1]].order_id

\* C4: no price level with an empty queue or total_volume == 0 is present in
\* a side book after an accepted command.
C4_NoEmptyLevel ==
    \A side \in Sides : \A k \in DOMAIN BookOf(side) :
        /\ BookOf(side)[k].order_queue_ # <<>>
        /\ BookOf(side)[k].total_volume_ # 0

\* the price keys of a side book, best first (highest bid, lowest ask)
RECURSIVE KeysBestFirst(_, _)
KeysBestFirst(keys, is_bid_book) ==
    IF keys = {} THEN <<>>
    ELSE LET b == CHOOSE k \in keys :
                    \A j \in keys : IF is_bid_book THEN j <= k ELSE j >= k
         IN <<b>> \o KeysBestFirst(keys \ {b}, is_bid_book)

RECURSIVE QueuesInOrder(_, _)
QueuesInOrder(book, keyseq) ==
    IF keyseq = <<>> THEN <<>>
    ELSE book[Head(keyseq)].order_queue_ \o QueuesInOrder(book, Tail(keyseq))

\* the resting orders of a side in price-time priority
MakersBestFirst(is_bid_book) ==
    QueuesInOrder(BookOf(is_bid_book), KeysBestFirst(DOMAIN BookOf(is_bid_book), is_bid_book))

\* the sum of the remaining quantities of the orders queued on a side
RECURSIVE SideQuantity(_, _, _)
SideQuantity(book, heap, keys) ==
    IF keys = {} THEN 0
    ELSE LET k == CHOOSE x \in keys : TRUE
         IN SumQuantities(heap, book[k].order_queue_) + SideQuantity(book, heap, keys \ {k})

RECURSIVE TradedWith(_, _)
TradedWith(trades, id) ==
    IF trades = <<>> THEN 0
    ELSE (IF Head(trades).resting_order_id = id THEN Head(trades).quantity ELSE 0)
         + TradedWith(Tail(trades), id)

RECURSIVE QueueIds(_, _)
QueueIds(heap, queue) ==
    IF queue = <<>> THEN <<>>
    ELSE <<heap[Head(queue)].order_id>> \o QueueIds(heap, Tail(queue))

\* C5: strict price-time priority. The makers of the trades of an accepted
\* Add or Modify are, in the order the trades are reported, an initial
\* segment of the opposite side's resting orders taken best price first and
\* within a price in queue order, and every maker but the last one traded
\* with is filled completely.
C5_PriceTimePriority ==
    [][(last'.cmd \in {"Add", "Modify"} /\ last'.result = "ok") =>
          LET trades == TradesIn(events')
              makers == MakersBestFirst(~last'.is_buy)
          IN /\ Len(trades) <= Len(makers)
             /\ \A i \in 1..Len(trades) :
                   /\ trades[i].resting_order_id = orders[makers[i]].order_id
                   /\ trades[i].aggressor_order_id = last'.order_id
                   /\ (i < Len(trades) => trades[i].quantity = orders[makers[i]].quantity)
       ]_vars

\* a command has traded with two makers
C5_Witness ==
    /\ Accepted
    /\ Len(TradesIn(events)) >= 2

\* C6: every trade of an accepted Add or Modify is priced at the price of the
\* resting order it was matched against, as that order stood in the index
\* when the command started.
C6_TradeAtMakerPrice ==
    [][(last'.cmd \in {"Add", "Modify"} /\ last'.result = "ok") =>
          \A i \in 1..Len(TradesIn(events')) :
             LET trade == TradesIn(events')[i]
             IN /\ trade.resting_order_id \in DOMAIN order_map_
                /\ trade.price = orders[order_map_[trade.resting_order_id]].price
       ]_vars

\* a trade printed at a price that is not the aggressor's limit
C6_Witness ==
    /\ Accepted
    /\ \E i \in 1..Len(TradesIn(events)) : TradesIn(events)[i].price # last.price

\* C7: an accepted Add conserves volume. The aggressor's filled quantity
\* (its quantity less the residue that rests) and the decrease of the
\* opposite side's resting quantity both equal the sum of the trade
\* quantities, and every resting order loses exactly what it traded.
C7_AddConservesVolume ==
    [][(last'.cmd = "Add" /\ last'.result = "ok") =>
          LET trades == TradesIn(events')
              id == last'.order_id
              opp == ~last'.is_buy
              residue == IF id \in DOMAIN order_map_'
                         THEN orders'[order_map_'[id]].quantity ELSE 0
              before == SideQuantity(BookOf(opp), orders, DOMAIN BookOf(opp))
              after == SideQuantity(BookOfNext(opp), orders', DOMAIN BookOfNext(opp))
          IN /\ last'.quantity - residue = SumTradeQuantities(trades)
             /\ before - after = SumTradeQuantities(trades)
             /\ \A m \in DOMAIN order_map_ :
                   orders[order_map_[m]].quantity
                     - (IF m \in DOMAIN order_map_'
                        THEN orders'[order_map_'[m]].quantity ELSE 0)
                     = TradedWith(trades, m)
       ]_vars

\* an Add has traded with two makers
C7_Witness ==
    /\ last.cmd = "Add" /\ last.result = "ok"
    /\ Len(TradesIn(events)) >= 2
    /\ SumTradeQuantities(TradesIn(events)) = last.quantity

\* the five rejection cases, read off the command and the state it meets
RejectCase(c) ==
    \/ c.cmd = "Add" /\ c.quantity = 0
    \/ c.cmd = "Add" /\ c.order_id \in DOMAIN order_map_
    \/ c.cmd = "Cancel" /\ c.order_id \notin DOMAIN order_map_
    \/ c.cmd = "Modify" /\ c.quantity = 0
    \/ c.cmd = "Modify" /\ c.order_id \notin DOMAIN order_map_

\* C8: a rejected command changes nothing. An Add with quantity 0 or with a
\* live id, a Cancel or Modify of an unknown id and a Modify to quantity 0
\* fail, and every command that fails leaves the order index, both side
\* books and every order as they were.
C8_RejectChangesNothing ==
    [][/\ RejectCase(last') => last'.result # "ok"
       /\ last'.result # "ok" => UNCHANGED <<order_map_, bids_, asks_, orders>>
      ]_vars

\* an Add was rejected as a duplicate while orders rest on the book
C8_Witness ==
    /\ last.cmd = "Add" /\ last.result = "runtime_error"
    /\ last.order_id \in DOMAIN order_map_
    /\ Cardinality(DOMAIN order_map_) >= 2

C10_ReductionKeepsPosition ==
    [][(/\ last'.cmd = "Modify" /\ last'.result = "ok"
        /\ last'.order_id \in DOMAIN order_map_
        /\ last'.price = orders[order_map_[last'.order_id]].price
        /\ last'.quantity <= orders[order_map_[last'.order_id]].quantity) =>
          LET side == last'.is_buy
              k == last'.price
          IN /\ k \in DOMAIN BookOfNext(side)
             /\ QueueIds(orders', BookOfNext(side)[k].order_queue_)
                  = QueueIds(orders, BookOf(side)[k].order_queue_)
       ]_vars

\* the ids queued at a price of a side book, the empty queue when the book
\* has no level at that price
IdsAt(book, heap, price) ==
    IF price \in DOMAIN book THEN QueueIds(heap, book[price].order_queue_) ELSE <<>>

RECURSIVE WithoutId(_, _)
WithoutId(ids, id) ==
    IF ids = <<>> THEN <<>>
    ELSE IF Head(ids) = id THEN WithoutId(Tail(ids), id)
    ELSE <<Head(ids)>> \o WithoutId(Tail(ids), id)

\* C11: an accepted Modify that changes the price or increases the quantity
\* loses time priority. If the replacement rests, the queue at its new price
\* is the queue that was there before (the modified order itself taken out)
\* followed by the modified order: it stands behind every order already
\* queued there.
C11_ModifyGoesToTail ==
    [][(/\ last'.cmd = "Modify" /\ last'.result = "ok"
        /\ \/ last'.price # orders[order_map_[last'.order_id]].price
           \/ last'.quantity > orders[order_map_[last'.order_id]].quantity
        /\ last'.order_id \in DOMAIN order_map_') =>
          LET side == last'.is_buy
              id == last'.order_id
          IN IdsAt(BookOfNext(side), orders', last'.price)
               = WithoutId(IdsAt(BookOf(side), orders, last'.price), id) \o <<id>>
       ]_vars

\* a Modify moved an order to another price, or raised its quantity, and
\* the order rests behind an order that was queued there before
C11_Witness ==
    /\ last.cmd = "Modify" /\ last.result = "ok"
    /\ replaced.price # last.price \/ replaced.quantity < last.quantity
    /\ last.order_id \in DOMAIN order_map_
    /\ Len(IdsAt(BookOf(last.is_buy), orders, last.price)) >= 2

\* C12: Cancel undoes an Add that did not trade, as far as the getters show.
\* When an accepted Add of order A has produced no trade and the next command
\* is an accepted Cancel of A, GetBestBid, GetBestAsk, GetTotalBidVolume and
\* GetTotalAskVolume return after the Cancel what they returned before the Add.
C12_CancelUndoesAdd ==
    [][(/\ last'.cmd = "Cancel" /\ last'.result = "ok"
        /\ quoted.order_id = last'.order_id) =>
          /\ GetBestBid' = quoted.best_bid
          /\ GetBestAsk' = quoted.best_ask
          /\ GetTotalBidVolume' = quoted.bid_volume
          /\ GetTotalAskVolume' = quoted.ask_volume
       ]_vars

\* the prices of the resting orders of a side, read from the order index
RestingPrices(is_buy) ==
    {orders[order_map_[id]].price :
        id \in {i \in DOMAIN order_map_ : orders[order_map_[i]].is_buy_side = is_buy}}

\* C13: GetBestBid returns 0 when no buy order rests and the highest resting
\* buy price otherwise; GetBestAsk returns 0 when no sell order rests and the
\* lowest resting sell price otherwise.
C13_BestPriceOfRestingOrders ==
    /\ GetBestBid = IF RestingPrices(TRUE) = {} THEN 0
                    ELSE CHOOSE k \in RestingPrices(TRUE) :
                            \A j \in RestingPrices(TRUE) : j <= k
    /\ GetBestAsk = IF RestingPrices(FALSE) = {} THEN 0
                    ELSE CHOOSE k \in RestingPrices(FALSE) :
                            \A j \in RestingPrices(FALSE) : j >= k

\* the events of a command after its TradeExecuted events
AfterTrades(evs) == SubSeq(evs, Len(TradesIn(evs)) + 1, Len(evs))

\* the TradeExecuted events come first
TradesFirst(evs) ==
    \A i \in 1..Len(evs) : (evs[i].type = "TradeExecuted") <=> (i <= Len(TradesIn(evs)))

\* the trades name the opposite side's resting orders best price first, in
\* queue order within a price
InMatchOrder(trades, makers, heap) ==
    /\ Len(trades) <= Len(makers)
    /\ \A i \in 1..Len(trades) : trades[i].resting_order_id = heap[makers[i]].order_id

TypesOf(evs) == [i \in 1..Len(evs) |-> evs[i].type]

\* C14: the events of an accepted Add are its TradeExecuted events in match
\* order, then OrderAcknowledged exactly when a residue rested, then one
\* TopOfBookUpdate as the last event whenever a side book changed, also when
\* the aggressor was filled completely and nothing rests.
C14_AddEventOrder ==
    [][(last'.cmd = "Add" /\ last'.result = "ok") =>
          LET id == last'.order_id
              rested == id \in DOMAIN order_map_'
              changed == <<bids_, asks_>>' # <<bids_, asks_>>
              tail == AfterTrades(events')
          IN /\ TradesFirst(events')
             /\ InMatchOrder(TradesIn(events'), MakersBestFirst(~last'.is_buy), orders)
             /\ TypesOf(tail) = (IF rested THEN <<"OrderAcknowledged">> ELSE <<>>)
                                  \o (IF changed THEN <<"TopOfBookUpdate">> ELSE <<>>)
             /\ rested => tail[1].order_id = id
       ]_vars

\* C15: the events of an accepted Modify are the TradeExecuted events of the
\* re-entry in match order, then OrderModified(order_id, new_quantity,
\* new_price) exactly when the replacement rested, then one TopOfBookUpdate,
\* always.
C15_ModifyEventOrder ==
    [][(last'.cmd = "Modify" /\ last'.result = "ok") =>
          LET id == last'.order_id
              rested == id \in DOMAIN order_map_'
              tail == AfterTrades(events')
          IN /\ TradesFirst(events')
             /\ InMatchOrder(TradesIn(events'), MakersBestFirst(~last'.is_buy), orders)
             /\ TypesOf(tail) = (IF rested THEN <<"OrderModified">> ELSE <<>>)
                                  \o <<"TopOfBookUpdate">>
             /\ rested => /\ tail[1].order_id = id
                          /\ tail[1].new_quantity = last'.quantity
                          /\ tail[1].new_price = last'.price
       ]_vars

\* a Modify has traded and its residue rests
C15_Witness ==
    /\ last.cmd = "Modify" /\ last.result = "ok"
    /\ TradesIn(events) # <<>>
    /\ last.order_id \in DOMAIN order_map_
    /\ Len(events) = Len(TradesIn(events)) + 2

\* no order with this id is indexed or queued
Removed(order_id) ==
    /\ order_id \notin DOMAIN order_map_
    /\ \A p \in QueuedPtrs : orders[p].order_id # order_id

\* C16: the events of an accepted Cancel are OrderCancelled(order_id) and then
\* one TopOfBookUpdate, each handed to every registered client, and whenever a
\* callback for one of them runs the order is already out of its level and
\* out of the index.
C16_CancelEventOrder ==
    /\ (Running /\ frame.cmd.cmd = "Cancel"
            /\ frame.event.type \in {"OrderCancelled", "TopOfBookUpdate"}) =>
          /\ frame.cmd.order_id \in DOMAIN frame.entry.order_map_
          /\ Removed(frame.cmd.order_id)
    /\ (last.cmd = "Cancel" /\ last.result = "ok") =>
          /\ TypesOf(events) = <<"OrderCancelled", "TopOfBookUpdate">>
          /\ events[1].order_id = last.order_id
          /\ delivered = Fanout(events, clients_)
          /\ Removed(last.order_id)

\* the second client is about to get the TopOfBookUpdate of a Cancel that
\* has left another order resting
C16_Witness ==
    /\ Running /\ frame.cmd.cmd = "Cancel"
    /\ frame.event.type = "TopOfBookUpdate"
    /\ frame.it = 2
    /\ DOMAIN order_map_ # {}

\* C17: a callback that fails during the delivery of an event of a command
\* keeps the event from no other registered client, does not abort the
\* command and does not alter engine state: every event of the command is
\* handed to every client, the command leaves as it would have left, and the
\* index, both side books and the orders are those of the command run with
\* no callback failing.
C17_CallbackFailureIsolated ==
    (last.cmd # "none" /\ frame.failed) =>
        LET unfailed == Run(frame.entry, frame.cmd)
        IN /\ delivered = Fanout(unfailed.events, clients_)
           /\ last.result = unfailed.result
           /\ EngineState = unfailed.st

\* C18: callbacks may call AddOrder, CancelOrder or ModifyOrder of the book
\* while the outer command waits in a Notify* call. When the outer command has
\* returned, no resting buy order is priced at or above a resting sell order,
\* every queued order is the one the index holds under its id and every
\* indexed order is queued, and no two queued orders share an id.
C18_ReentrantKeepsInvariants ==
    (last.cmd # "none" /\ frame.nested > 0) =>
        /\ \A p \in QueuedPtrs, q \in QueuedPtrs :
              (orders[p].is_buy_side /\ ~orders[q].is_buy_side) =>
                  orders[p].price < orders[q].price
        /\ \A p \in QueuedPtrs :
              /\ orders[p].order_id \in DOMAIN order_map_
              /\ order_map_[orders[p].order_id] = p
        /\ \A id \in DOMAIN order_map_ : order_map_[id] \in QueuedPtrs
        /\ \A p \in QueuedPtrs, q \in QueuedPtrs :
              p # q => orders[p].order_id # orders[q].order_id

\* a Notify* call has returned and no callback has touched the registry
Undisturbed == last.cmd = "Notify" /\ last.result = "ok" /\ ~frame.mutated

\* the callbacks that have run with this event for this client
CallsOf(log, c, event) ==
    Cardinality({i \in 1..Len(log) : log[i].client = c /\ log[i].event = event})

\* C19 as stated: each event is delivered to all registered clients in the
\* order in which they were registered.
C19_RegistrationOrder ==
    Undisturbed => delivered = Fanout(events, registration)

\* C19, amended: each event is delivered to every registered client exactly
\* once, in the iteration order of clients_, which need not be the order of
\* registration.
C19_IterationOrder ==
    Undisturbed =>
        /\ delivered = Fanout(events, clients_)
        /\ AsSet(clients_) = AsSet(registration)
        /\ \A c \in AsSet(registration) : CallsOf(delivered, c, events[1]) = 1

\* an event has gone to three clients in another order than they registered
C19_Witness ==
    /\ Undisturbed
    /\ Len(delivered) = 3
    /\ clients_ # registration

\* C20: a delivery works on the clients registered when it starts. When a
\* callback has registered or unregistered a client during the delivery, the
\* delivery still returns and every client registered at its start has got
\* the event exactly once.
C20_DeliveryOnSnapshot ==
    (last.cmd = "Notify" /\ frame.mutated) =>
        /\ last.result = "ok"
        /\ \A c \in AsSet(frame.start) : CallsOf(delivered, c, events[1]) = 1

\* the callbacks object o has received, in order
RECURSIVE CallsTo(_, _)
CallsTo(log, o) ==
    IF log = <<>> THEN <<>>
    ELSE (IF Head(log).observer = o THEN <<Head(log).call>> ELSE <<>>)
            \o CallsTo(Tail(log), o)

\* reads the callbacks of one object: ok is FALSE when a Shutdown or an event
\* came to an object that was not initialised or already shut down; open says
\* that the last Initialize has had no Shutdown yet
RECURSIVE LifeOf(_, _)
LifeOf(log, open) ==
    IF log = <<>> THEN [ok |-> TRUE, open |-> open]
    ELSE IF Head(log) = "Initialize" THEN LifeOf(Tail(log), TRUE)
    ELSE IF ~open THEN [ok |-> FALSE, open |-> open]
    ELSE LifeOf(Tail(log), Head(log) # "Shutdown")

\* C21: every client object RegisterClient accepted gets Initialize at its
\* registration and Shutdown exactly once, at UnregisterClient of its id or
\* when the engine is destroyed, and no event after its Shutdown: no Shutdown
\* or event comes to an object that is not initialised, an object that still
\* waits for its Shutdown has its id registered, and after the destructor no
\* object waits for its Shutdown.
C21_ObserverLifecycle ==
    \A o \in Observers :
        LET life == LifeOf(CallsTo(calls, o), FALSE)
        IN /\ life.ok
           /\ life.open => SeqContains(clients_, GetClientId(o))
           /\ last.cmd = "~OrderBook" => ~life.open

C23_LimitRespected ==
    [][(last'.cmd \in {"Add", "Modify"} /\ last'.result = "ok") =>
          LET is_buy == last'.is_buy
              limit == last'.price
              id == last'.order_id
          IN /\ \A i \in 1..Len(TradesIn(events')) :
                    IF is_buy THEN TradesIn(events')[i].price <= limit
                    ELSE TradesIn(events')[i].price >= limit
             /\ \A k \in DOMAIN BookOf(~is_buy) :
                    ~Crosses(is_buy, limit, k) =>
                        /\ k \in DOMAIN BookOfNext(~is_buy)
                        /\ BookOfNext(~is_buy)[k] = BookOf(~is_buy)[k]
             /\ id \in DOMAIN order_map_' =>
                    /\ \A k \in DOMAIN BookOfNext(~is_buy) : ~Crosses(is_buy, limit, k)
                    /\ orders'[order_map_'[id]].price = limit
                    /\ orders'[order_map_'[id]].is_buy_side = is_buy
                    /\ orders'[order_map_'[id]].parent_price_level = <<is_buy, limit>>
                    /\ limit \in DOMAIN BookOfNext(is_buy)
                    /\ SeqContains(BookOfNext(is_buy)[limit].order_queue_, order_map_'[id])
                    /\ \A k \in DOMAIN BookOfNext(~is_buy) :
                          ~SeqContains(BookOfNext(~is_buy)[k].order_queue_, order_map_'[id])
       ]_vars

\* an aggressor has traded, has stopped at a level that does not cross, which
\* still holds its order, and rests with its residue
C23_Witness ==
    /\ last.cmd \in {"Add", "Modify"} /\ last.result = "ok"
    /\ Len(TradesIn(events)) >= 1
    /\ last.order_id \in DOMAIN order_map_
    /\ \E k \in DOMAIN BookOf(~last.is_buy) :
          /\ ~Crosses(last.is_buy, last.price, k)
          /\ BookOf(~last.is_buy)[k].order_queue_ # <<>>

\* CancelOrder(order_id) and then AddOrder(order_id, same side, quantity, price)
CancelThenAdd(order_id, quantity, price) ==
    LET cancelled == Run(EngineState, Command("Cancel", order_id, FALSE, 0, 0, "running"))
    IN Run(cancelled.st,
           Command("Add", order_id, orders[order_map_[order_id]].is_buy_side,
                   quantity, price, "running"))

\* C24: an accepted ModifyOrder(id, q, p) that is not a reduction of the
\* quantity at the same price makes the trades and leaves the book (index,
\* levels of both sides with their queues and volumes, orders) that
\* CancelOrder(id) followed by AddOrder(id, same side, q, p) makes and leaves.
C24_ModifyIsCancelThenAdd ==
    [][(/\ last'.cmd = "Modify" /\ last'.result = "ok"
        /\ ~(/\ last'.price = orders[order_map_[last'.order_id]].price
             /\ last'.quantity <= orders[order_map_[last'.order_id]].quantity)) =>
          \E replayed \in {CancelThenAdd(last'.order_id, last'.quantity, last'.price)} :
             /\ replayed.result = "ok"
             /\ TradesIn(replayed.events) = TradesIn(events')
             /\ replayed.st = EngineState'
       ]_vars

\* the sum of the remaining quantities of the indexed orders of one side
RECURSIVE IndexQuantity(_, _)
IndexQuantity(ids, is_buy) ==
    IF ids = {} THEN 0
    ELSE LET id == CHOOSE x \in ids : TRUE
         IN (IF orders[order_map_[id]].is_buy_side = is_buy
             THEN orders[order_map_[id]].quantity ELSE 0)
            + IndexQuantity(ids \ {id}, is_buy)

\* C25: after any sequence of commands GetTotalBidVolume() is the sum of the
\* remaining quantities of the buy orders in the order index, and
\* GetTotalAskVolume() that of the sell orders.
C25_TotalVolumeOfIndex ==
    /\ GetTotalBidVolume = IndexQuantity(DOMAIN order_map_, TRUE)
    /\ GetTotalAskVolume = IndexQuantity(DOMAIN order_map_, FALSE)

\* buy orders rest at two prices, one of them left over from a partial fill
C25_Witness ==
    /\ Accepted
    /\ Cardinality(DOMAIN bids_) = 2
    /\ \A k \in DOMAIN bids_ : bids_[k].order_queue_ # <<>>
    /\ Len(TradesIn(events)) >= 1
    /\ last.order_id \in DOMAIN order_map_
    /\ GetTotalBidVolume >= 2

\* C26: GetSpread() and GetMidPrice() return 0 in every reachable state in
\* which a side has no resting order, and GetBestAsk() - GetBestBid() and
\* (GetBestBid() + GetBestAsk()) / 2, rounded down, when orders rest on both
\* sides.
C26_SpreadAndMidPrice ==
    IF RestingPrices(TRUE) = {} \/ RestingPrices(FALSE) = {}
    THEN GetSpread = 0 /\ GetMidPrice = 0
    ELSE /\ GetSpread = GetBestAsk - GetBestBid
         /\ GetMidPrice = (GetBestBid + GetBestAsk) \div 2

\* the back-link of every indexed order is not null and is the level, on the
\* order's side and at its price, whose queue holds the order
BackLinked ==
    \A id \in DOMAIN order_map_ :
        LET p == order_map_[id]
            parent == orders[p].parent_price_level
        IN /\ parent # NullLevel
           /\ parent = <<orders[p].is_buy_side, orders[p].price>>
           /\ parent[2] \in DOMAIN BookOf(parent[1])
           /\ SeqContains(BookOf(parent[1])[parent[2]].order_queue_, p)
           /\ PlacesOf(p) = {pl \in PlacesOf(p) : pl[1] = parent[1] /\ pl[2] = parent[2]}

\* C27: in every state commands issued outside callbacks reach, every
\* indexed order has a back-link that is not null and points at the level
\* that holds it; so no CancelOrder finds a null back-link and no ModifyOrder
\* rejects with "Cannot modify filled order".
C27_BackLinkNeverNull ==
    [][/\ BackLinked'
       /\ (last'.cmd = "Cancel" /\ last'.result = "ok") =>
              orders[order_map_[last'.order_id]].parent_price_level # NullLevel
       /\ \A i \in 1..Len(events') :
              events'[i].type = "OrderRejected" =>
                  events'[i].reason # "Cannot modify filled order"
      ]_vars

\* two orders rest, one behind a maker that a Modify has filled in part
C27_Witness ==
    /\ last.cmd = "Modify" /\ last.result = "ok"
    /\ Len(TradesIn(events)) >= 1
    /\ Cardinality(DOMAIN order_map_) >= 2
    /\ \E id \in DOMAIN order_map_ :
          /\ TradedWith(TradesIn(events), id) > 0
          /\ Len(BookOf(orders[order_map_[id]].is_buy_side)[orders[order_map_[id]].price]
                    .order_queue_) >= 2

\* every order that is queued in a level or held in the index has a
\* remaining quantity above 0
RestingPositive ==
    /\ \A p \in QueuedPtrs : orders[p].quantity > 0
    /\ \A id \in DOMAIN order_map_ : orders[order_map_[id]].quantity > 0

\* C28: every resting order has a remaining quantity above 0: a maker that a
\* match of an accepted Add or Modify fills to 0 has left its queue, the index
\* and the heap when the command ends, and an aggressor without residue is
\* never inserted.
C28_RestingQuantityPositive ==
    [][/\ RestingPositive'
       /\ (last'.cmd \in {"Add", "Modify"} /\ last'.result = "ok") =>
             /\ \A id \in DOMAIN order_map_ \ {last'.order_id} :
                   (TradedWith(TradesIn(events'), id) = orders[order_map_[id]].quantity) =>
                       /\ id \notin DOMAIN order_map_'
                       /\ \A p \in DOMAIN orders' : orders'[p].order_id # id
             /\ (SumTradeQuantities(TradesIn(events')) = last'.quantity) =>
                   /\ last'.order_id \notin DOMAIN order_map_'
                   /\ \A p \in DOMAIN orders' : orders'[p].order_id # last'.order_id
      ]_vars

\* an aggressor has been filled whole against two makers, the first filled to
\* 0 and removed, the second filled in part and still resting
C28_Witness ==
    /\ last.cmd \in {"Add", "Modify"} /\ last.result = "ok"
    /\ Len(TradesIn(events)) = 2
    /\ SumTradeQuantities(TradesIn(events)) = last.quantity
    /\ last.order_id \notin DOMAIN order_map_
    /\ TradesIn(events)[1].resting_order_id \notin DOMAIN order_map_
    /\ TradesIn(events)[2].resting_order_id \in DOMAIN order_map_

\* a step in which price_level->FillOrder(&incoming_order, quantity) ran
FillOrderRan == last'.cmd = "PriceLevel::FillOrder"

\* C29: FillOrder(aggressor, quantity) makes exactly one trade per maker it
\* touches, in queue order: the i-th trade names the i-th order of the queue
\* at entry and has a positive quantity, and no order behind the last trade's
\* maker is changed. The trade quantities sum to min(quantity, total_volume_
\* at entry). Asked for more than the level's volume, it trades with every
\* queued order and stops with the queue empty.
C29_OneTradePerMaker ==
    [][FillOrderRan =>
         LET queue == price_level.order_queue_
             trades == last_fill'.trades
         IN /\ Len(trades) <= Len(queue)
            /\ \A i \in 1..Len(trades) :
                  /\ trades[i].resting_order_id = orders[queue[i]].order_id
                  /\ trades[i].aggressor_order_id = IncomingOrderId
                  /\ trades[i].quantity > 0
            /\ \A i \in (Len(trades) + 1)..Len(queue) :
                  orders'[queue[i]] = orders[queue[i]]
            /\ SumTradeQuantities(trades)
                 = Min(last_fill'.quantity, price_level.total_volume_)
            /\ last_fill'.quantity > price_level.total_volume_
                 => /\ Len(trades) = Len(queue)
                    /\ price_level'.order_queue_ = <<>>]_vars

\* a FillOrder that asked for more than the level held and traded with
\* two makers
C29_Witness ==
    /\ last.cmd = "PriceLevel::FillOrder"
    /\ Len(last_fill.trades) >= 2
    /\ SumTradeQuantities(last_fill.trades) < last_fill.quantity
    /\ price_level.order_queue_ = <<>>

\* the number of trades of a fill that left their maker with nothing
RECURSIVE FullyFilled(_, _, _)
FullyFilled(heap, queue, trades) ==
    IF trades = <<>> THEN 0
    ELSE (IF heap[Head(queue)].quantity = Head(trades).quantity THEN 1 ELSE 0)
         + FullyFilled(heap, Tail(queue), Tail(trades))

\* C30: a fill takes exactly the filled quantity off the maker's quantity
\* and off the level's total_volume_. A maker filled in part is the head of
\* the queue afterwards, still linked to the level, with the reduced
\* quantity; a maker filled whole is popped with its back-link cleared, so
\* the queue afterwards is the queue at entry without the whole-filled
\* orders at its front.
C30_FillDecrements ==
    [][FillOrderRan =>
         LET queue == price_level.order_queue_
             trades == last_fill'.trades
             popped == FullyFilled(orders, queue, trades)
         IN /\ price_level'.total_volume_
                 = price_level.total_volume_ - SumTradeQuantities(trades)
            /\ price_level'.order_queue_ = SubSeq(queue, popped + 1, Len(queue))
            /\ \A i \in 1..Len(trades) :
                  /\ orders'[queue[i]].quantity
                       = orders[queue[i]].quantity - trades[i].quantity
                  /\ IF orders'[queue[i]].quantity > 0
                     THEN /\ price_level'.order_queue_ # <<>>
                          /\ Head(price_level'.order_queue_) = queue[i]
                          /\ orders'[queue[i]].parent_price_level = ThisLevel
                     ELSE /\ ~SeqContains(price_level'.order_queue_, queue[i])
                          /\ orders'[queue[i]].parent_price_level = NullLevel]_vars

\* a FillOrder that filled one maker whole and the next in part, which is
\* the head of the queue now with another order behind it
C30_Witness ==
    /\ last.cmd = "PriceLevel::FillOrder"
    /\ Len(last_fill.trades) >= 2
    /\ Len(price_level.order_queue_) >= 2
    /\ orders[Head(price_level.order_queue_)].order_id
         = last_fill.trades[Len(last_fill.trades)].resting_order_id
    /\ orders[Head(price_level.order_queue_)].quantity > 0

\* the trades of the running command whose TradeExecuted is still to be sent
RECURSIVE TradesToCome(_)
TradesToCome(todo) ==
    IF todo = <<>> THEN <<>>
    ELSE IF Head(todo).op = "Notify" /\ Head(todo).event.type = "TradeExecuted"
         THEN <<Head(todo).event.trade>> \o TradesToCome(Tail(todo))
         ELSE TradesToCome(Tail(todo))

\* a callback is handling a TradeExecuted
InOnTradeExecuted == Running /\ frame.event.type = "TradeExecuted"

\* the quantity of the order with this id in a book, 0 when it is not indexed
QuantityIn(st, order_id) ==
    IF order_id \in DOMAIN st.order_map_
    THEN st.orders[st.order_map_[order_id]].quantity ELSE 0

\* C31 as stated: while a callback handles the k-th TradeExecuted of a
\* command, the makers of the later trades of that command are still resting
\* with the quantity they had when the command started.
C31_LaterMakersUntouched ==
    InOnTradeExecuted =>
        \A i \in 1..Len(TradesToCome(frame.todo)) :
           LET maker == TradesToCome(frame.todo)[i].resting_order_id
           IN /\ maker \in DOMAIN order_map_
              /\ QuantityIn(EngineState, maker) = QuantityIn(frame.entry, maker)

\* C31 amended: MatchOrders has returned before the first TradeExecuted is
\* sent. While a callback handles a TradeExecuted, every trade of the command
\* still to be reported has already been made: its maker has the quantity it
\* had when the command started less the trade's quantity, and is out of the
\* index when that is 0.
C31_LaterMakersAlreadyFilled ==
    InOnTradeExecuted =>
        \A i \in 1..Len(TradesToCome(frame.todo)) :
           LET trade == TradesToCome(frame.todo)[i]
               maker == trade.resting_order_id
           IN /\ trade.quantity > 0
              /\ maker \in DOMAIN frame.entry.order_map_
              /\ QuantityIn(EngineState, maker)
                   = QuantityIn(frame.entry, maker) - trade.quantity
              /\ maker \in DOMAIN order_map_ <=> QuantityIn(EngineState, maker) > 0

\* a callback handles the first trade of a command while the second trade,
\* with a maker that was filled whole, is still to be reported
C31_Witness ==
    /\ InOnTradeExecuted
    /\ TradesToCome(frame.todo) # <<>>
    /\ TradesToCome(frame.todo)[1].resting_order_id \notin DOMAIN order_map_
    /\ TradesToCome(frame.todo)[1].resting_order_id # frame.event.trade.resting_order_id

\* the step is a command on an id that is not live when the command starts
OnDeadId == last'.cmd # "none" /\ last'.order_id \notin DOMAIN order_map_

NotFound(order_id) == <<OrderRejected(order_id, "Order ID not found")>>

\* C32: an order id is live exactly while it is in the index. An accepted
\* Cancel takes its id out of the index; a resting order whose whole quantity
\* is traded by a command, and an incoming or replacement order that is
\* filled whole, is out of the index when the command returns; an id enters
\* the index only by an accepted Add of that id. A Cancel of an id that is
\* not live is rejected with "Order ID not found", and so is a Modify (with a
\* new quantity above 0; quantity 0 is rejected for the quantity). An Add of
\* an id that is not live is never rejected as a duplicate: with a quantity
\* above 0 it is accepted.
C32_IdLiveUntilCancelledOrFilled ==
    [][last'.cmd # "none" =>
         LET id == last'.order_id
             trades == TradesIn(events')
             accepted == last'.result = "ok"
         IN /\ accepted /\ last'.cmd = "Cancel" => id \notin DOMAIN order_map_'
            /\ \A maker \in DOMAIN order_map_ \ {id} :
                  TradedWith(trades, maker) = orders[order_map_[maker]].quantity
                     => maker \notin DOMAIN order_map_'
            /\ accepted /\ last'.cmd \in {"Add", "Modify"}
                 /\ SumTradeQuantities(trades) = last'.quantity
                     => id \notin DOMAIN order_map_'
            /\ \A other \in DOMAIN order_map_' \ DOMAIN order_map_ :
                  other = id /\ last'.cmd = "Add" /\ accepted
            /\ OnDeadId /\ last'.cmd = "Cancel"
                 => last'.result = "runtime_error" /\ events' = NotFound(id)
            /\ OnDeadId /\ last'.cmd = "Modify" /\ last'.quantity > 0
                 => last'.result = "runtime_error" /\ events' = NotFound(id)
            /\ OnDeadId /\ last'.cmd = "Modify" /\ last'.quantity = 0
                 => last'.result = "invalid_argument"
            /\ OnDeadId /\ last'.cmd = "Add"
                 => /\ accepted <=> last'.quantity > 0
                    /\ \A i \in 1..Len(events') :
                          events'[i] # OrderRejected(id, "Order ID already exists")]_vars

\* an accepted Add that has filled a resting order whole: the maker's id is
\* out of the index while the rest of the incoming order is live
C32_Witness ==
    /\ last.cmd = "Add" /\ last.result = "ok"
    /\ TradesIn(events) # <<>>
    /\ TradesIn(events)[1].resting_order_id \notin DOMAIN order_map_
    /\ last.order_id \in DOMAIN order_map_

\* the step is a CancelOrder that returned normally
CancelAccepted == last'.cmd = "Cancel" /\ last'.result = "ok"

\* C33: an accepted Cancel(id) removes only that order. The total volume of
\* the order's side drops by exactly the order's remaining quantity, the
\* other side book is unchanged, every queue of the order's side is the queue
\* it was without the cancelled order, every other order and its index entry
\* are unchanged, and no trade is emitted.
C33_CancelRemovesOnlyThatOrder ==
    [][CancelAccepted /\ last'.order_id \in DOMAIN order_map_ =>
         LET id == last'.order_id
             p == order_map_[id]
             is_buy == orders[p].is_buy_side
             before == BookOf(is_buy)
             after == BookOfNext(is_buy)
         IN /\ SumVolumes(after, DOMAIN after)
                 = SumVolumes(before, DOMAIN before) - orders[p].quantity
            /\ BookOfNext(~is_buy) = BookOf(~is_buy)
            /\ DOMAIN after \subseteq DOMAIN before
            /\ \A k \in DOMAIN before :
                  IF k \in DOMAIN after
                  THEN after[k].order_queue_ = SeqRemove(before[k].order_queue_, p)
                  ELSE before[k].order_queue_ = <<p>>
            /\ order_map_' = MapErase(order_map_, id)
            /\ \A q \in DOMAIN orders \ {p} : q \in DOMAIN orders' /\ orders'[q] = orders[q]
            /\ p \notin DOMAIN orders'
            /\ TradesIn(events') = <<>>]_vars

\* an accepted Cancel that left two other orders resting, one on each side
C33_Witness ==
    /\ last.cmd = "Cancel" /\ last.result = "ok"
    /\ Cardinality(DOMAIN order_map_) = 2
    /\ GetTotalBidVolume > 0
    /\ GetTotalAskVolume > 0

\* the levels of a side book from iterator `it` on, in iteration order
LevelsFrom(book, is_bid_book, it) ==
    IF it = EndIt THEN {}
    ELSE {k \in DOMAIN book : IF is_bid_book THEN k <= it ELSE k >= it}

\* the side the running walk goes over
WalkSide == ~walk.cmd.is_buy

\* C34: every Add, Cancel and Modify terminates. Cancel has no loop over the
\* book. A pass of the match walk moves the iterator strictly on in the
\* iteration order of the opposite side book, so no level is visited twice
\* and the number of levels still ahead drops with every pass, also over a
\* level without orders; the trades of a pass, one per iteration of the fill
\* loop, each have a quantity above 0 and together take exactly
\* min(incoming quantity, level volume) off the incoming order. Hence a walk
\* that has started comes to its end and the command returns.
C34_CommandsTerminate ==
    /\ [][walk.running /\ walk'.running =>
            LET made == SubSeq(walk'.trades, Len(walk.trades) + 1, Len(walk'.trades))
                level == BookOf(WalkSide)[walk.it]
            IN /\ walk'.it # walk.it
               /\ walk'.it = EndIt \/ (IF WalkSide THEN walk'.it < walk.it
                                       ELSE walk'.it > walk.it)
               /\ LevelsFrom(BookOfNext(WalkSide), WalkSide, walk'.it)
                    \subseteq LevelsFrom(BookOf(WalkSide), WalkSide, walk.it) \ {walk.it}
               /\ walk.trades = SubSeq(walk'.trades, 1, Len(walk.trades))
               /\ \A i \in 1..Len(made) : made[i].quantity > 0
               /\ Len(made) <= Len(level.order_queue_)
               /\ SumTradeQuantities(made)
                    = Min(orders[walk.p].quantity, level.total_volume_)
               /\ orders'[walk.p].quantity
                    = orders[walk.p].quantity - SumTradeQuantities(made)]_vars
    /\ (walk.running ~> ~walk.running)

\* a walk that has traded at the best level and now stands at a level that
\* holds no order and that the incoming order's price reaches
C34_Witness ==
    /\ WalkContinues
    /\ walk.trades # <<>>
    /\ BookOf(WalkSide)[walk.it].order_queue_ = <<>>

\* C35: every trade a command makes has a quantity above 0, names the
\* command's order as aggressor and another order id as resting order, and
\* that resting order was in the index, on the opposite side, when the
\* command started. This holds after every pass of the match walk, passes
\* over levels without orders included.
C35_TradesWellFormed ==
    walk.running =>
       \A i \in 1..Len(walk.trades) :
          LET trade == walk.trades[i]
              maker == trade.resting_order_id
          IN /\ trade.quantity > 0
             /\ trade.aggressor_order_id = walk.cmd.order_id
             /\ maker # trade.aggressor_order_id
             /\ maker \in DOMAIN walk.entry.order_map_
             /\ walk.entry.orders[walk.entry.order_map_[maker]].is_buy_side
                  # walk.cmd.is_buy
             /\ walk.entry.orders[walk.entry.order_map_[maker]].quantity
                  >= trade.quantity

\* a walk that has passed a level without orders and then traded at the
\* next level
C35_Witness ==
    /\ walk.running
    /\ walk.trades # <<>>
    /\ \E k \in DOMAIN SideBook(walk.entry, WalkSide) :
          /\ SideBook(walk.entry, WalkSide)[k].order_queue_ = <<>>
          /\ IF WalkSide THEN k > walk.trades[1].price ELSE k < walk.trades[1].price

\* the best price of the resting orders of a side (0 when none rests) and
\* the summed quantity of the orders resting at that price
BestResting(is_buy) ==
    IF RestingPrices(is_buy) = {} THEN [price |-> 0, volume |-> 0]
    ELSE LET best == CHOOSE k \in RestingPrices(is_buy) :
                        \A j \in RestingPrices(is_buy) :
                           IF is_buy THEN j <= k ELSE j >= k
         IN [price |-> best,
             volume |-> SumQuantities(orders,
                           IF best \in DOMAIN BookOf(is_buy)
                           THEN BookOf(is_buy)[best].order_queue_ ELSE <<>>)]

\* C36 as stated: every TopOfBookUpdate of a command carries the best bid
\* and best ask of the resting orders and the volume resting at exactly
\* those two prices, which is 0 only for a side on which no order rests, at
\* every price from 0 up.
C36_TopOfBookIsBestLevels ==
    \A i \in 1..Len(events) :
       events[i].type = "TopOfBookUpdate" =>
          /\ events[i].best_bid = BestResting(TRUE).price
          /\ events[i].bid_volume = BestResting(TRUE).volume
          /\ events[i].best_ask = BestResting(FALSE).price
          /\ events[i].ask_volume = BestResting(FALSE).volume
          /\ events[i].bid_volume = 0 <=> RestingPrices(TRUE) = {}
          /\ events[i].ask_volume = 0 <=> RestingPrices(FALSE) = {}

\* the step is a ModifyOrder that returned normally
ModifyAccepted == Idle /\ last'.cmd = "Modify" /\ last'.result = "ok"

\* C37: an accepted Modify gives the replacement order the ts_received of
\* the order it replaces, and that order's ts_executed when the price is the
\* same and the new quantity is not above the old one, else the time of the
\* Modify. The replacement rests with this pair, and every trade it makes
\* carries this pair.
C37_ModifyTimestamps ==
    [][ModifyAccepted =>
         LET id == last'.order_id
             old == orders[order_map_[id]]
             keeps == last'.price = old.price /\ last'.quantity <= old.quantity
             expected == [ts_received |-> stamps[id].ts_received,
                          ts_executed |-> IF keeps THEN stamps[id].ts_executed ELSE now]
         IN /\ id \in DOMAIN order_map_' => stamps'[id] = expected
            /\ TradesIn(events') # <<>> => trade_stamps' = expected
            /\ \A other \in DOMAIN order_map_' \ {id} : stamps'[other] = stamps[other]]_vars

\* an accepted Modify whose replacement traded, rests with a remainder, has
\* kept ts_received and has a ts_executed that is later
C37_Witness ==
    /\ last.cmd = "Modify" /\ last.result = "ok"
    /\ TradesIn(events) # <<>>
    /\ last.order_id \in DOMAIN order_map_
    /\ stamps[last.order_id] = trade_stamps
    /\ trade_stamps.ts_received < trade_stamps.ts_executed
    /\ trade_stamps.ts_executed = now

\* a step in which price_level->RemoveOrder(order) ran
RemoveOrderRan == Idle /\ last'.cmd = "PriceLevel::RemoveOrder"

\* the address of the order with this id
OrderWithId(order_id) == CHOOSE p \in DOMAIN orders : orders[p].order_id = order_id

\* C38: RemoveOrder of an order that is not in the queue of the level throws
\* the runtime_error "Order not found in PriceLevel" and leaves the queue,
\* total_volume_ and every order, its back-link included, as they were;
\* RemoveOrder of a queued order does not throw.
C38_RemoveNotQueuedFails ==
    [][RemoveOrderRan =>
         LET p == OrderWithId(last'.order_id)
         IN IF SeqContains(price_level.order_queue_, p)
            THEN last'.result = "ok"
            ELSE /\ last'.result = "runtime_error"
                 /\ UNCHANGED <<price_level, orders>>]_vars

\* RemoveOrder has thrown for an order that is in the queue of another
\* level, while price_level holds an order
C38_Witness ==
    /\ last.cmd = "PriceLevel::RemoveOrder" /\ last.result = "runtime_error"
    /\ price_level.order_queue_ # <<>>
    /\ \E p \in DOMAIN orders :
          /\ orders[p].order_id = last.order_id
          /\ orders[p].parent_price_level = OtherLevel

\* the ids one generator has returned to a thread, in the order of its calls
RECURSIVE IdsOf(_, _)
IdsOf(results, generator) ==
    IF results = <<>> THEN <<>>
    ELSE (IF Head(results).generator = generator THEN <<Head(results).id>> ELSE <<>>)
         \o IdsOf(Tail(results), generator)

Generators == {"GenerateOrderId", "GenerateExecutionId"}

\* C39: with several threads calling the generators in any interleaving, no
\* generator returns a value twice, to the same thread or to two threads,
\* and the values a generator returns to one thread are strictly increasing
\* in the order of that thread's calls.
C39_GeneratorsThreadSafe ==
    \A g \in Generators :
       /\ \A t \in DOMAIN thread_results :
             LET ids == IdsOf(thread_results[t], g)
             IN \A i \in 1..Len(ids) : \A j \in 1..Len(ids) : i < j => ids[i] < ids[j]
       /\ \A t \in DOMAIN thread_results : \A u \in DOMAIN thread_results :
             t # u =>
                \A i \in 1..Len(IdsOf(thread_results[t], g)) :
                \A j \in 1..Len(IdsOf(thread_results[u], g)) :
                   IdsOf(thread_results[t], g)[i] # IdsOf(thread_results[u], g)[j]

\* three threads have drawn ids, one of them from both generators, with the
\* calls of the threads interleaved
C39_Witness ==
    /\ DOMAIN thread_results = Threads
    /\ \E t \in Threads :
          /\ Len(IdsOf(thread_results[t], "GenerateOrderId")) >= 2
          /\ Len(IdsOf(thread_results[t], "GenerateExecutionId")) >= 1
          /\ IdsOf(thread_results[t], "GenerateOrderId")[2]
               > IdsOf(thread_results[t], "GenerateOrderId")[1] + 1

\* C40 as stated: for every pair of resting best prices of the tick range,
\* GetMidPrice is floor((best_bid + best_ask) / 2) and GetSpread is
\* best_ask - best_bid, in plain arithmetic.
C40_QuotesNeverWrap ==
    derived.computed =>
       /\ derived.mid_price = (derived.best_bid + derived.best_ask) \div 2
       /\ derived.spread = derived.best_ask - derived.best_bid

====
